---- MODULE Spec2Model ----
(***************************************************************************)
(* Statement generation of the historical service (BaseHistoricalService): *)
(* the projection engine, the income statement, balance sheet and cash     *)
(* flow generators, their exception fallbacks, and the clock they read.    *)
(*                                                                         *)
(* Numbers.  The program computes with Python floats.  Here every amount,  *)
(* count and rate is a fixed-point number with Scale units per 1.0, so     *)
(* 12.5 is 1250 and a rate of 25% is 25.  A float product is Mul, a float  *)
(* quotient is Div (both round down to a unit), sums and differences are   *)
(* exact.                                                                  *)
(*                                                                         *)
(* Exceptions.  A year entry that is not a dict (wellformed = FALSE) makes *)
(* year_data.get raise AttributeError; a loan whose 'years' is not numeric *)
(* makes float() raise ValueError; an unbound local raises NameError; a    *)
(* zero divisor raises ZeroDivisionError.  Each generator wraps its whole  *)
(* body in try/except Exception, so the body either returns its statement  *)
(* or the generator returns its fallback: <Generator>Raises tells which.   *)
(***************************************************************************)
EXTENDS Integers, Sequences, FiniteSets, TLC

Scale == 100

Min(a, b) == IF a <= b THEN a ELSE b

Max(a, b) == IF a >= b THEN a ELSE b

Abs(a) == IF a < 0 THEN 0 - a ELSE a

Mul(a, b) == (a * b) \div Scale

Div(a, b) == (a * Scale) \div b

Pct(p) == (p * Scale) \div 100

RECURSIVE Pow(_, _)
Pow(b, n) == IF n <= 0 THEN Scale ELSE Mul(Pow(b, n - 1), b)

RECURSIVE SumSeq(_)
SumSeq(s) == IF Len(s) = 0 THEN 0 ELSE s[1] + SumSeq(Tail(s))

Zeros(n) == [i \in 1..n |-> 0]

Neg(s) == [i \in 1..Len(s) |-> 0 - s[i]]

Prefix(s, n) == [i \in 1..Min(n, Len(s)) |-> s[i]]

ensure_array_length(arr, target_length) ==
    [i \in 1..target_length |-> IF i <= Len(arr) THEN arr[i] ELSE 0]

(* dict bookkeeping: the keys of a dict in insertion order, and the value  *)
(* a key ends with after a run of assignments d[key] = value.              *)
RECURSIVE Dedupe(_)
Dedupe(s) ==
    IF Len(s) = 0 THEN <<>>
    ELSE LET front == Dedupe(SubSeq(s, 1, Len(s) - 1))
             last == s[Len(s)]
         IN IF \E i \in 1..Len(front) : front[i] = last THEN front
            ELSE Append(front, last)

RECURSIVE Flatten(_)
Flatten(ss) == IF Len(ss) = 0 THEN <<>> ELSE ss[1] \o Flatten(Tail(ss))

LastMatch(pairs, key) ==
    LET hits == {k \in 1..Len(pairs) : pairs[k][1] = key}
    IN IF hits = {} THEN 0
       ELSE pairs[CHOOSE k \in hits : \A j \in hits : j <= k][2]

(* every record of the list, however many years the business has          *)
AllRecords(records, years_in_business) == 1..Len(records)

(* for year_idx in range(years_in_business):                               *)
(*     if year_idx < len(records): ... += amount                           *)
HistoricalYears(records, years_in_business) ==
    1..Min(years_in_business, Len(records))

(* the forecast policy shared by depreciation, other income and expenses,  *)
(* investment income, interest, equipment, investments and loans: every    *)
(* forecast year repeats the last historical year.                         *)
FlatLine(hist, years_in_business, forecast_years) ==
    [i \in 1..(years_in_business + forecast_years) |->
        IF i <= years_in_business THEN hist[i]
        ELSE IF years_in_business > 0 THEN hist[years_in_business] ELSE 0]

----------------------------------------------------------------------------
(* The three places every generator starts with.                           *)

total_years(data) == data.yearsInBusiness + data.forecastYears

YearLabels(data, current_year) ==
    LET base_year == current_year - data.yearsInBusiness + 1
    IN [i \in 1..total_years(data) |-> <<"", base_year + (i - 1)>>]

FallbackYearCount == 5

FallbackYears(current_year) ==
    [i \in 1..FallbackYearCount |-> <<"FY", current_year + (i - 1)>>]

(* line items, with exactly the keys the source writes on each             *)
Header(label, n) == [label |-> label, values |-> Zeros(n), is_header |-> TRUE]

SubItem(label, values) == [label |-> label, values |-> values, is_sub_item |-> TRUE]

Total(label, values) == [label |-> label, values |-> values, is_total |-> TRUE]

Spacer(n) == [label |-> "", values |-> Zeros(n), is_spacer |-> TRUE]

Detail(label, values, category) ==
    [label |-> label, values |-> values, category |-> category]

Plain(label) == [label |-> label, values |-> Zeros(FallbackYearCount)]

(* next((item for item in line_items if <label test>), None)               *)
(* matching: the labels that pass the test                                 *)
HasLine(statement, matching) ==
    \E k \in 1..Len(statement.line_items) :
        statement.line_items[k].label \in matching

FirstLine(statement, matching) ==
    LET hits == {k \in 1..Len(statement.line_items) :
                    statement.line_items[k].label \in matching}
    IN statement.line_items[CHOOSE k \in hits : \A j \in hits : k <= j]

----------------------------------------------------------------------------
(* Revenue/Cost/Expense projection engine                                  *)

ServiceRevenueOf(year_data) ==
    SumSeq([k \in 1..Len(year_data.services) |->
                year_data.services[k].historicalRevenue])

ServiceClientsOf(year_data) ==
    SumSeq([k \in 1..Len(year_data.services) |->
                year_data.services[k].historicalClients])

ServiceCostOf(year_data) ==
    SumSeq([k \in 1..Len(year_data.services) |-> year_data.services[k].cost])

HistoricalRevenue(historical_services, years_in_business) ==
    [y \in 1..years_in_business |->
        IF y \in HistoricalYears(historical_services, years_in_business)
        THEN ServiceRevenueOf(historical_services[y]) ELSE 0]

HistoricalCustomers(historical_services, years_in_business) ==
    [y \in 1..years_in_business |->
        IF y \in HistoricalYears(historical_services, years_in_business)
        THEN ServiceClientsOf(historical_services[y]) ELSE 0]

(* a pass of the forecast loop that projects the demand of the year        *)
(* whatever the capacity of the team                                       *)
RevenueStepWithoutCeiling(s, forecast_year, m, revenue_growth_rate, customer_growth_rate) ==
    LET client_retention_rate == Pct(m.clientRetentionRate)
        cac == m.clientAcquisitionCost
        clv == m.customerLifetimeValue
        expansion_revenue_percent == Pct(m.expansionRevenuePercent)
        seasonality_factor == Pct(m.seasonalityFactor)
        has_customers == s.base_customers > 0
        retained_customers ==
            IF has_customers THEN Mul(s.base_customers, client_retention_rate)
            ELSE s.retained_customers
        new_customers ==
            IF has_customers
            THEN IF cac > 0 /\ clv > 0
                 THEN Mul(Mul(s.base_customers, customer_growth_rate),
                          Min(Div(clv, cac), 2 * Scale))
                 ELSE Mul(s.base_customers, customer_growth_rate)
            ELSE s.new_customers
        projected_customers ==
            IF has_customers THEN retained_customers + new_customers
            ELSE Mul(s.base_customers, Pow(Scale + customer_growth_rate, forecast_year))
        base_revenue_per_customer ==
            IF s.base_customers > 0 /\ s.base_revenue > 0
            THEN Div(s.base_revenue, s.base_customers)
            ELSE IF s.base_revenue > 0
                 THEN Div(s.base_revenue, Max(Scale, s.base_customers))
                 ELSE 0
        bound == has_customers \/ s.bound
        raised == s.raised \/ (base_revenue_per_customer > 0 /\ ~bound)
        demand ==
            IF base_revenue_per_customer > 0
            THEN Mul(Mul(retained_customers, base_revenue_per_customer),
                     Scale + expansion_revenue_percent)
                 + Mul(new_customers, base_revenue_per_customer)
            ELSE Mul(s.base_revenue, Pow(Scale + revenue_growth_rate, forecast_year))
        seasonality_multiplier ==
            Scale + Mul(seasonality_factor,
                        (Scale \div 2) - (forecast_year % 2) * (Scale \div 2))
        seasonal == Mul(demand, seasonality_multiplier)
        projected_revenue == seasonal
    IN IF raised
       THEN [base_revenue |-> 0, base_customers |-> 0, retained_customers |-> 0,
             new_customers |-> 0, bound |-> bound, raised |-> TRUE]
       ELSE [base_revenue |-> projected_revenue,
             base_customers |-> projected_customers,
             retained_customers |-> retained_customers,
             new_customers |-> new_customers, bound |-> bound, raised |-> FALSE]

(* one pass of the forecast loop of _calculate_revenue_breakdown.  s holds *)
(* the locals that survive an iteration: base_revenue, base_customers, and *)
(* retained_customers / new_customers, which are assigned only under       *)
(* base_customers > 0 (bound says whether they have been).  Reading them   *)
(* unbound is a NameError (raised).                                        *)
RevenueStep(s, forecast_year, m, revenue_growth_rate, customer_growth_rate) ==
    LET client_retention_rate == Pct(m.clientRetentionRate)
        cac == m.clientAcquisitionCost
        clv == m.customerLifetimeValue
        expansion_revenue_percent == Pct(m.expansionRevenuePercent)
        seasonality_factor == Pct(m.seasonalityFactor)
        utilization_rate == Pct(m.utilizationRate)
        team_size == m.teamSize
        team_growth_rate == Pct(m.teamGrowthRate)
        has_customers == s.base_customers > 0
        retained_customers ==
            IF has_customers THEN Mul(s.base_customers, client_retention_rate)
            ELSE s.retained_customers
        new_customers ==
            IF has_customers
            THEN IF cac > 0 /\ clv > 0
                 THEN Mul(Mul(s.base_customers, customer_growth_rate),
                          Min(Div(clv, cac), 2 * Scale))
                 ELSE Mul(s.base_customers, customer_growth_rate)
            ELSE s.new_customers
        projected_customers ==
            IF has_customers THEN retained_customers + new_customers
            ELSE Mul(s.base_customers, Pow(Scale + customer_growth_rate, forecast_year))
        base_revenue_per_customer ==
            IF s.base_customers > 0 /\ s.base_revenue > 0
            THEN Div(s.base_revenue, s.base_customers)
            ELSE IF s.base_revenue > 0
                 THEN Div(s.base_revenue, Max(Scale, s.base_customers))
                 ELSE 0
        bound == has_customers \/ s.bound
        raised == s.raised \/ (base_revenue_per_customer > 0 /\ ~bound)
        demand ==
            IF base_revenue_per_customer > 0
            THEN Mul(Mul(retained_customers, base_revenue_per_customer),
                     Scale + expansion_revenue_percent)
                 + Mul(new_customers, base_revenue_per_customer)
            ELSE Mul(s.base_revenue, Pow(Scale + revenue_growth_rate, forecast_year))
        seasonality_multiplier ==
            Scale + Mul(seasonality_factor,
                        (Scale \div 2) - (forecast_year % 2) * (Scale \div 2))
        seasonal == Mul(demand, seasonality_multiplier)
        capacity_based_revenue ==
            Mul(Mul(Mul(team_size, Pow(Scale + team_growth_rate, forecast_year)),
                    Div(s.base_revenue, team_size)),
                utilization_rate)
        projected_revenue ==
            IF team_size > 0 /\ utilization_rate > 0 /\ capacity_based_revenue > 0
            THEN Min(seasonal, capacity_based_revenue)
            ELSE seasonal
    IN IF raised
       THEN [base_revenue |-> 0, base_customers |-> 0, retained_customers |-> 0,
             new_customers |-> 0, bound |-> bound, raised |-> TRUE]
       ELSE [base_revenue |-> projected_revenue,
             base_customers |-> projected_customers,
             retained_customers |-> retained_customers,
             new_customers |-> new_customers, bound |-> bound, raised |-> FALSE]

(* for year_idx in range(forecast_years): passes holds the locals as they   *)
(* stood before the loop and after each pass made so far                   *)
RECURSIVE RevenueLoop(_, _, _, _, _, _)
RevenueLoop(passes, year_idx, forecast_years, m, revenue_growth, customer_growth) ==
    IF year_idx >= forecast_years THEN passes
    ELSE RevenueLoop(Append(passes,
                            RevenueStep(passes[Len(passes)], year_idx + 1, m,
                                        revenue_growth, customer_growth)),
                     year_idx + 1, forecast_years, m, revenue_growth,
                     customer_growth)

(* total_revenue[-1] if total_revenue else 0                               *)
LastOrZero(series) == IF Len(series) > 0 THEN series[Len(series)] ELSE 0

(* the locals after each pass of the forecast loop                         *)
RevenueForecast(data) ==
    Tail(RevenueLoop(
        << [base_revenue |->
                LastOrZero(HistoricalRevenue(data.historicalServices,
                                             data.yearsInBusiness)),
            base_customers |->
                LastOrZero(HistoricalCustomers(data.historicalServices,
                                               data.yearsInBusiness)),
            retained_customers |-> 0, new_customers |-> 0,
            bound |-> FALSE, raised |-> FALSE] >>,
        0, data.forecastYears, data.serviceBusinessModel,
        Pct(data.revenueGrowthRate), Pct(data.customerGrowthRate)))

ServiceNames(historical_services, years_in_business) ==
    Dedupe(Flatten([y \in HistoricalYears(historical_services, years_in_business) |->
        [k \in 1..Len(historical_services[y].services) |->
            historical_services[y].services[k].name]]))

(* service_breakdown[service_name][year_idx] = service_revenue, one        *)
(* assignment per service of the year                                      *)
ServiceRevenues(year_data) ==
    [k \in 1..Len(year_data.services) |->
        <<year_data.services[k].name, year_data.services[k].historicalRevenue>>]

(* Project service breakdown (proportional to current mix)                 *)
ServiceShare(projected_revenue, last_year, last_total) ==
    IF projected_revenue > 0 /\ last_year > 0
    THEN Mul(projected_revenue, Div(last_year, last_total))
    ELSE 0

ServiceBreakdown(data, names, historical, steps) ==
    LET yib == data.yearsInBusiness
        hs == data.historicalServices
        of(name, y) ==
            IF y \in HistoricalYears(hs, yib)
            THEN LastMatch(ServiceRevenues(hs[y]), name)
            ELSE 0
    IN [k \in 1..Len(names) |->
          [name |-> names[k],
           values |-> [i \in 1..total_years(data) |->
              IF i <= yib THEN of(names[k], i)
              ELSE ServiceShare(steps[i - yib].base_revenue, of(names[k], yib),
                                historical[yib])]]]

service_breakdown(data) ==
    ServiceBreakdown(data,
                     ServiceNames(data.historicalServices, data.yearsInBusiness),
                     HistoricalRevenue(data.historicalServices,
                                       data.yearsInBusiness),
                     RevenueForecast(data))

(* NameError on an unbound retained_customers, AttributeError on a year    *)
(* entry that is no dict, or ZeroDivisionError on                          *)
(* service_breakdown[name][yib-1] / total_revenue[yib-1]                   *)
ForecastRaises(data, names, historical, steps) ==
    LET yib == data.yearsInBusiness
        hs == data.historicalServices
    IN \/ \E i \in 1..Len(steps) : steps[i].raised
       \/ /\ yib \in HistoricalYears(hs, yib)
          /\ historical[yib] = 0
          /\ \E i \in 1..Len(steps) : steps[i].base_revenue > 0
          /\ \E k \in 1..Len(names) :
                LastMatch(ServiceRevenues(hs[yib]), names[k]) > 0

RevenueRaises(data) ==
    \/ \E y \in HistoricalYears(data.historicalServices, data.yearsInBusiness) :
          ~data.historicalServices[y].wellformed
    \/ ForecastRaises(data,
                      ServiceNames(data.historicalServices, data.yearsInBusiness),
                      HistoricalRevenue(data.historicalServices,
                                        data.yearsInBusiness),
                      RevenueForecast(data))

(* the historical years, then total_revenue.append(projected_revenue) pass *)
(* by pass                                                                 *)
total_revenue(data) ==
    ensure_array_length(
        HistoricalRevenue(data.historicalServices, data.yearsInBusiness)
            \o [i \in 1..data.forecastYears |->
                    RevenueForecast(data)[i].base_revenue],
        total_years(data))

HistoricalCogs(historical_services, years_in_business) ==
    [y \in 1..years_in_business |->
        IF y \in HistoricalYears(historical_services, years_in_business)
        THEN ServiceCostOf(historical_services[y]) ELSE 0]

(* Project future COGS based on margin trends                               *)
ProjectedCogs(yib, n, rev, hist) ==
    LET years == {y \in 1..yib : rev[y] > 0}
        margin(y) == Div(rev[y] - hist[y], rev[y])
        margins == [y \in 1..yib |-> IF y \in years THEN margin(y) ELSE 0]
        avg_margin == SumSeq(margins) \div Cardinality(years)
        projected(i) ==
            IF Len(hist) > 0 /\ Len(rev) > 0 /\ years # {}
            THEN Mul(rev[i], Scale - avg_margin)
            ELSE Mul(rev[i], Scale \div 2)
    IN [i \in 1..n |-> IF i <= yib THEN hist[i] ELSE projected(i)]

total_cogs(data) ==
    ensure_array_length(
        ProjectedCogs(data.yearsInBusiness, total_years(data), total_revenue(data),
                      HistoricalCogs(data.historicalServices, data.yearsInBusiness)),
        total_years(data))

ExpenseAmountOf(year_data) ==
    SumSeq([k \in 1..Len(year_data.expenses) |->
                year_data.expenses[k].historicalAmount])

HistoricalExpenses(historical_expenses, years_in_business) ==
    [y \in 1..years_in_business |->
        IF y \in HistoricalYears(historical_expenses, years_in_business)
        THEN ExpenseAmountOf(historical_expenses[y]) ELSE 0]

total_operating_expenses(data) ==
    LET yib == data.yearsInBusiness
        hist == HistoricalExpenses(data.historicalExpenses, yib)
        base_expenses == LastOrZero(hist)
        expense_growth_rate == Pct(data.expenseGrowthRate)
    IN ensure_array_length(
         [i \in 1..total_years(data) |->
            IF i <= yib THEN hist[i]
            ELSE Mul(base_expenses, Pow(Scale + expense_growth_rate, i - yib))],
         total_years(data))

ExpenseCategories(historical_expenses, years_in_business) ==
    Dedupe(Flatten([y \in HistoricalYears(historical_expenses, years_in_business) |->
        [k \in 1..Len(historical_expenses[y].expenses) |->
            historical_expenses[y].expenses[k].category]]))

(* expense_breakdown[expense_category][year_idx] = expense_amount, one     *)
(* assignment per expense of the year                                      *)
ExpenseAmounts(year_data) ==
    [k \in 1..Len(year_data.expenses) |->
        <<year_data.expenses[k].category, year_data.expenses[k].historicalAmount>>]

(* Project expense breakdown                                               *)
ExpenseShare(projected_expenses, last_year, base_expenses) ==
    IF last_year > 0 THEN Mul(projected_expenses, Div(last_year, base_expenses))
    ELSE 0

ExpenseBreakdown(data, categories, total) ==
    LET yib == data.yearsInBusiness
        he == data.historicalExpenses
        of(category, y) ==
            IF y \in HistoricalYears(he, yib)
            THEN LastMatch(ExpenseAmounts(he[y]), category)
            ELSE 0
    IN [k \in 1..Len(categories) |->
          [name |-> categories[k],
           values |-> [i \in 1..total_years(data) |->
              IF i <= yib THEN of(categories[k], i)
              ELSE ExpenseShare(total[i], of(categories[k], yib), total[yib])]]]

expense_breakdown(data) ==
    ExpenseBreakdown(data,
                     ExpenseCategories(data.historicalExpenses,
                                       data.yearsInBusiness),
                     total_operating_expenses(data))

(* AttributeError on a year entry that is no dict, or ZeroDivisionError on *)
(* expense_breakdown[category][yib-1] / base_expenses                      *)
OperatingExpensesRaise(data) ==
    LET yib == data.yearsInBusiness
        he == data.historicalExpenses
        categories == ExpenseCategories(he, yib)
    IN \/ \E y \in HistoricalYears(he, yib) : ~he[y].wellformed
       \/ /\ data.forecastYears > 0
          /\ yib \in HistoricalYears(he, yib)
          /\ ExpenseAmountOf(he[yib]) = 0
          /\ \E k \in 1..Len(categories) :
                LastMatch(ExpenseAmounts(he[yib]), categories[k]) > 0

DepreciationOf(year_data) ==
    SumSeq([k \in 1..Len(year_data.equipment) |->
        IF year_data.equipment[k].usefulLife > 0
        THEN Div(year_data.equipment[k].cost, year_data.equipment[k].usefulLife)
        ELSE 0])

total_depreciation(data) ==
    LET yib == data.yearsInBusiness
        eq == data.historicalEquipment
    IN ensure_array_length(
         FlatLine([y \in 1..yib |-> IF y \in HistoricalYears(eq, yib)
                                    THEN DepreciationOf(eq[y]) ELSE 0],
                  yib, data.forecastYears),
         total_years(data))

DepreciationRaises(data) ==
    \E y \in HistoricalYears(data.historicalEquipment, data.yearsInBusiness) :
        ~data.historicalEquipment[y].wellformed

OtherOf(year_data, is_income) ==
    SumSeq([k \in 1..Len(year_data.other) |->
        IF year_data.other[k].isIncome = is_income THEN year_data.other[k].amount
        ELSE 0])

total_other(data, is_income) ==
    LET yib == data.yearsInBusiness
        ot == data.historicalOther
    IN FlatLine([y \in 1..yib |-> IF y \in HistoricalYears(ot, yib)
                                  THEN OtherOf(ot[y], is_income) ELSE 0],
                yib, data.forecastYears)

total_other_income(data) == total_other(data, TRUE)

total_other_expenses(data) == total_other(data, FALSE)

(* a year entry of any shape read without complaint                       *)
OtherReadLeniently(data) == FALSE

OtherRaises(data) ==
    \E y \in HistoricalYears(data.historicalOther, data.yearsInBusiness) :
        ~data.historicalOther[y].wellformed

InvestmentIncomeOf(year_data) ==
    SumSeq([k \in 1..Len(year_data.investments) |->
        IF year_data.investments[k].income
        THEN year_data.investments[k].incomeAmount ELSE 0])

total_investment_income(data) ==
    LET yib == data.yearsInBusiness
        inv == data.historicalInvestments
    IN FlatLine([y \in 1..yib |-> IF y \in HistoricalYears(inv, yib)
                                  THEN InvestmentIncomeOf(inv[y]) ELSE 0],
                yib, data.forecastYears)

InvestmentsRaise(data) ==
    \E y \in HistoricalYears(data.historicalInvestments, data.yearsInBusiness) :
        ~data.historicalInvestments[y].wellformed

InterestOf(year_data) ==
    SumSeq([k \in 1..Len(year_data.loans) |->
        Mul(year_data.loans[k].amount, Pct(year_data.loans[k].rate))])

total_interest_expense(data) ==
    LET yib == data.yearsInBusiness
        ln == data.historicalLoans
    IN FlatLine([y \in 1..yib |-> IF y \in HistoricalYears(ln, yib)
                                  THEN InterestOf(ln[y]) ELSE 0],
                yib, data.forecastYears)

InterestRaises(data) ==
    \E y \in HistoricalYears(data.historicalLoans, data.yearsInBusiness) :
        ~data.historicalLoans[y].wellformed

MonthsPerYear == 12

total_owner_compensation(data) ==
    LET annual_amount ==
            IF data.ownerDrawings.frequency = "monthly"
            THEN data.ownerDrawings.amount * MonthsPerYear
            ELSE data.ownerDrawings.amount
    IN [i \in 1..total_years(data) |-> annual_amount]

----------------------------------------------------------------------------
(* Income statement generator                                              *)

(* the labels built from input strings: f'    {category.title()}',         *)
(* f'Expense - {category}' and f'Revenue - {service_name}', over the names *)
(* the payloads of this model use                                          *)
ExpenseLabel(category) ==
    CASE category = "rent" -> "    Rent"
      [] category = "marketing" -> "    Marketing"
      [] OTHER -> "    Other"

ExpenseDetailLabel(category) ==
    CASE category = "rent" -> "Expense - rent"
      [] category = "marketing" -> "Expense - marketing"
      [] OTHER -> "Expense - Other"

RevenueDetailLabel(service_name) ==
    CASE service_name = "consulting" -> "Revenue - consulting"
      [] service_name = "support" -> "Revenue - support"
      [] OTHER -> "Revenue - Unknown Service"

InitialAccumulatedLosses == 0

(* a loop that relieves a profit and keeps the losses it used              *)
RECURSIVE TaxLoopKeepingLosses(_, _, _, _)
TaxLoopKeepingLosses(ebt, i, accumulated_losses, tax_rate) ==
    IF i > Len(ebt) THEN <<>>
    ELSE IF ebt[i] < 0
    THEN <<0>> \o TaxLoopKeepingLosses(ebt, i + 1, accumulated_losses + Abs(ebt[i]),
                                      tax_rate)
    ELSE <<Mul(ebt[i] - Min(accumulated_losses, ebt[i]), tax_rate)>>
            \o TaxLoopKeepingLosses(ebt, i + 1, accumulated_losses, tax_rate)

(* for i, ebt_val in enumerate(ebt): the loss-carryforward loop, from year *)
(* i on, with the accumulated_losses it has reached                        *)
RECURSIVE TaxLoop(_, _, _, _)
TaxLoop(ebt, i, accumulated_losses, tax_rate) ==
    IF i > Len(ebt) THEN <<>>
    ELSE LET ebt_val == ebt[i]
         IN IF ebt_val < 0
            THEN <<0>> \o TaxLoop(ebt, i + 1, accumulated_losses + Abs(ebt_val),
                                 tax_rate)
            ELSE IF accumulated_losses > 0
                 THEN LET loss_offset == Min(accumulated_losses, ebt_val)
                          taxable_income == ebt_val - loss_offset
                          tax == IF taxable_income > 0
                                 THEN Mul(taxable_income, tax_rate) ELSE 0
                      IN <<tax>> \o TaxLoop(ebt, i + 1,
                                            accumulated_losses - loss_offset,
                                            tax_rate)
                 ELSE <<Mul(ebt_val, tax_rate)>>
                      \o TaxLoop(ebt, i + 1, accumulated_losses, tax_rate)

(* accumulated_losses after the first k years of the loop                  *)
RECURSIVE AccumulatedLosses(_, _)
AccumulatedLosses(ebt, k) ==
    IF k <= 0 THEN InitialAccumulatedLosses
    ELSE IF ebt[k] < 0 THEN AccumulatedLosses(ebt, k - 1) + Abs(ebt[k])
    ELSE IF AccumulatedLosses(ebt, k - 1) > 0
    THEN AccumulatedLosses(ebt, k - 1) - Min(AccumulatedLosses(ebt, k - 1), ebt[k])
    ELSE AccumulatedLosses(ebt, k - 1)

(* loss_offset of year k, 0 in the years that compute none                 *)
LossOffset(ebt, k) ==
    IF ebt[k] >= 0 /\ AccumulatedLosses(ebt, k - 1) > 0
    THEN Min(AccumulatedLosses(ebt, k - 1), ebt[k]) ELSE 0

(* every profit taxed in full, no loss carried forward                     *)
FlatTaxes(ebt, tax_rate) ==
    [i \in 1..Len(ebt) |-> IF ebt[i] < 0 THEN 0 ELSE Mul(ebt[i], tax_rate)]

Taxes(ebt, tax_rate) == TaxLoop(ebt, 1, InitialAccumulatedLosses, tax_rate)

At(s, i) == IF i <= Len(s) THEN s[i] ELSE 0

gross_profit(n, revenue, cogs) == [i \in 1..n |-> At(revenue, i) - At(cogs, i)]

(* gross profit less operating expenses only                               *)
OperatingMargin(n, gp, op_exp, other_inc, other_exp) ==
    [i \in 1..n |-> At(gp, i) - At(op_exp, i)]

ebitda(n, gp, op_exp, other_inc, other_exp) ==
    [i \in 1..n |-> At(gp, i) - At(op_exp, i) + At(other_inc, i) - At(other_exp, i)]

ebit(n, ebitda_val, dep) == [i \in 1..n |-> At(ebitda_val, i) - At(dep, i)]

ebt(n, ebit_val, inv_inc, interest) ==
    [i \in 1..n |-> At(ebit_val, i) + At(inv_inc, i) - At(interest, i)]

net_income(n, ebt_val, tax) == [i \in 1..n |-> At(ebt_val, i) - At(tax, i)]

cash_available_to_owner(n, net, owner_comp) ==
    [i \in 1..n |-> At(net, i) - At(owner_comp, i)]

PositiveOnly(breakdown) ==
    SelectSeq(breakdown,
              LAMBDA b : \E i \in 1..Len(b.values) : b.values[i] > 0)

IncomeRaises(data) ==
    \/ RevenueRaises(data)
    \/ OperatingExpensesRaise(data)
    \/ DepreciationRaises(data)
    \/ OtherRaises(data)
    \/ InvestmentsRaise(data)
    \/ InterestRaises(data)

(* the series derived from the ten the projection engine returns          *)
DerivedSeries(n, revenue, cogs, op_exp, dep, other_inc, other_exp, inv_inc, interest, owner_comp, tax_rate) ==
    LET gp == gross_profit(n, revenue, cogs)
        ebitda_val == ebitda(n, gp, op_exp, other_inc, other_exp)
        ebit_val == ebit(n, ebitda_val, dep)
        ebt_val == ebt(n, ebit_val, inv_inc, interest)
        tax == Taxes(ebt_val, tax_rate)
        net == net_income(n, ebt_val, tax)
    IN [total_revenue |-> revenue,
        total_cogs |-> cogs,
        gross_profit |-> gp,
        operating_expenses |-> op_exp,
        total_other_income |-> other_inc,
        total_other_expenses |-> other_exp,
        ebitda |-> ebitda_val,
        depreciation |-> dep,
        ebit |-> ebit_val,
        investment_income |-> inv_inc,
        interest_expense |-> interest,
        ebt |-> ebt_val,
        taxes |-> tax,
        net_income |-> net,
        total_owner_compensation |-> owner_comp,
        cash_available_to_owner |-> cash_available_to_owner(n, net, owner_comp)]

(* the locals of _generate_income_statement once its derived series are    *)
(* computed                                                                *)
IncomeLocals(data) ==
    DerivedSeries(total_years(data), total_revenue(data), total_cogs(data),
                  total_operating_expenses(data), total_depreciation(data),
                  total_other_income(data), total_other_expenses(data),
                  total_investment_income(data), total_interest_expense(data),
                  total_owner_compensation(data), Pct(data.taxRate))

(* for category, values in expense_breakdown.items()                       *)
ExpenseLines(breakdown) ==
    [k \in 1..Len(breakdown) |->
        SubItem(ExpenseLabel(breakdown[k].name), breakdown[k].values)]

(* the detail lines of the breakdowns, for the entries with any(v > 0)     *)
RevenueDetails(breakdown) ==
    [k \in 1..Len(breakdown) |->
        Detail(RevenueDetailLabel(breakdown[k].name), breakdown[k].values,
               "revenue_detail")]

ExpenseDetails(breakdown) ==
    [k \in 1..Len(breakdown) |->
        Detail(ExpenseDetailLabel(breakdown[k].name), breakdown[k].values,
               "expense_detail")]

IncomeLineItems(data, v) ==
    LET n == total_years(data)
    IN << Header("REVENUE", n),
          SubItem("    Service Revenue", v.total_revenue),
          Total("TOTAL REVENUE", v.total_revenue),
          Spacer(n),
          Header("COST OF GOODS SOLD (COGS)", n),
          SubItem("    Direct Costs", v.total_cogs),
          Total("TOTAL COGS", v.total_cogs),
          Spacer(n),
          Total("GROSS PROFIT", v.gross_profit),
          Spacer(n),
          Header("OPERATING EXPENSES", n) >>
       \o ExpenseLines(expense_breakdown(data))
       \o << SubItem("    Depreciation & Amortization (Operating)", v.depreciation),
             Total("TOTAL OPERATING EXPENSES", v.operating_expenses),
             Spacer(n),
             Header("OTHER OPERATING INCOME / EXPENSES", n),
             SubItem("    Other Operating Income", v.total_other_income),
             SubItem("    Other Operating Expenses", v.total_other_expenses),
             Spacer(n),
             Total("EBITDA", v.ebitda),
             SubItem("    Less: Depreciation & Amortization", Neg(v.depreciation)),
             Total("EBIT", v.ebit),
             Spacer(n),
             Header("NON-OPERATING INCOME / EXPENSES", n),
             SubItem("    Investment Income", v.investment_income),
             SubItem("    Interest Expense", v.interest_expense),
             Total("EARNINGS BEFORE TAXES (EBT)", v.ebt),
             Spacer(n),
             Header("TAX CALCULATION", n),
             SubItem("    Tax Provision (with Loss Carryforward)", v.taxes),
             Total("NET INCOME", v.net_income),
             Spacer(n),
             Header("CASH FLOW TO OWNER", n),
             SubItem("    Less: Owner Drawings", Neg(v.total_owner_compensation)),
             Total("CASH AVAILABLE TO OWNER", v.cash_available_to_owner) >>
       \o RevenueDetails(PositiveOnly(service_breakdown(data)))
       \o ExpenseDetails(PositiveOnly(expense_breakdown(data)))

IncomeSummary(v) ==
    [total_revenue |-> v.total_revenue,
     total_cogs |-> v.total_cogs,
     gross_profit |-> v.gross_profit,
     operating_expenses |-> v.operating_expenses,
     ebitda |-> v.ebitda,
     depreciation |-> v.depreciation,
     ebit |-> v.ebit,
     investment_income |-> v.investment_income,
     interest_expense |-> v.interest_expense,
     ebt |-> v.ebt,
     taxes |-> v.taxes,
     net_income |-> v.net_income,
     cash_available_to_owner |-> v.cash_available_to_owner]

IncomeFallback(current_year) ==
    [years |-> FallbackYears(current_year),
     line_items |-> << Plain("Revenue"), Plain("Cost of Goods Sold"),
                       Plain("Gross Profit"), Plain("Operating Expenses"),
                       Plain("Net Income") >>]

(* return {'years': ..., 'line_items': ..., 'summary': ..., 'metrics': ...} *)
IncomeStatement(data, current_year, v) ==
    [years |-> YearLabels(data, current_year),
     line_items |-> IncomeLineItems(data, v),
     summary |-> IncomeSummary(v),
     metrics |-> <<>>]

_generate_income_statement(data, current_year) ==
    IF IncomeRaises(data) THEN IncomeFallback(current_year)
    ELSE IncomeStatement(data, current_year, IncomeLocals(data))

----------------------------------------------------------------------------
(* Balance sheet generator                                                 *)

(* item['label'] == 'NET INCOME' and 'Tax Provision' in item['label']:     *)
(* the labels of a statement that pass                                     *)
IsNetIncomeLabel == {"NET INCOME"}

ContainsTaxProvision == {"    Tax Provision (with Loss Carryforward)"}

(* Fallback to simplified calculation if income statement fails            *)
SimpleNetIncome(n, revenue_array, expenses_array, tax_rate) ==
    [i \in 1..n |->
        LET simple_net == At(revenue_array, i) - At(expenses_array, i)
        IN IF simple_net > 0 THEN simple_net - Mul(simple_net, tax_rate)
           ELSE simple_net]

BalanceNetIncome(data, income_statement_data, revenue_array, expenses_array) ==
    IF HasLine(income_statement_data, IsNetIncomeLabel)
    THEN Prefix(FirstLine(income_statement_data, IsNetIncomeLabel).values,
                total_years(data))
    ELSE SimpleNetIncome(total_years(data), revenue_array, expenses_array,
                         Pct(data.taxRate))

RECURSIVE RetainedFrom(_, _, _)
RetainedFrom(i, net_income_values, owner_drawings) ==
    LET change == At(net_income_values, i) - At(owner_drawings, i)
    IN IF i > 1
       THEN RetainedFrom(i - 1, net_income_values, owner_drawings) + change
       ELSE change

(* each year's earnings alone, nothing brought forward                     *)
YearEarnings(n, net_income_values, owner_drawings) ==
    [i \in 1..n |-> At(net_income_values, i) - At(owner_drawings, i)]

retained_earnings(n, net_income_values, owner_drawings) ==
    [i \in 1..n |-> RetainedFrom(i, net_income_values, owner_drawings)]

EquipmentCostOf(year_data) ==
    SumSeq([k \in 1..Len(year_data.equipment) |-> year_data.equipment[k].cost])

equipment_gross(data) ==
    LET yib == data.yearsInBusiness
        eq == data.historicalEquipment
    IN FlatLine([y \in 1..yib |-> IF y \in HistoricalYears(eq, yib)
                                  THEN EquipmentCostOf(eq[y]) ELSE 0],
                yib, data.forecastYears)

accumulated_depreciation(n, depreciation_bs) ==
    [i \in 1..n |-> SumSeq(SubSeq(depreciation_bs, 1, i))]

InvestmentAmountOf(year_data) ==
    SumSeq([k \in 1..Len(year_data.investments) |->
                year_data.investments[k].amount])

investments(data) ==
    LET yib == data.yearsInBusiness
        inv == data.historicalInvestments
    IN FlatLine([y \in 1..yib |-> IF y \in HistoricalYears(inv, yib)
                                  THEN InvestmentAmountOf(inv[y]) ELSE 0],
                yib, data.forecastYears)

ReceivableRatio == Pct(10)

PayableRatio == Pct(20)

PrepaidRatio == Pct(5)

AccruedRatio == Pct(10)

TaxPayableRatio == Pct(50)

Ratio(series, ratio) == [i \in 1..Len(series) |-> Mul(series[i], ratio)]

taxes_payable(data, income_statement_data, revenue_array, expenses_array) ==
    IF HasLine(income_statement_data, ContainsTaxProvision)
    THEN Ratio(Prefix(FirstLine(income_statement_data, ContainsTaxProvision).values,
                      total_years(data)),
               TaxPayableRatio)
    ELSE [i \in 1..total_years(data) |->
            LET net == At(revenue_array, i) - At(expenses_array, i)
            IN IF net > 0 THEN Mul(Mul(net, Pct(data.taxRate)), TaxPayableRatio)
               ELSE 0]

(* term = float(loan.get('years', loan.get('term', 1)))                    *)
LoansOf(year_data, short_term) ==
    SumSeq([k \in 1..Len(year_data.loans) |->
        IF (year_data.loans[k].years <= 1 * Scale) = short_term
        THEN year_data.loans[k].amount ELSE 0])

loans(data, short_term) ==
    LET yib == data.yearsInBusiness
        ln == data.historicalLoans
    IN FlatLine([y \in 1..yib |-> IF y \in HistoricalYears(ln, yib)
                                  THEN LoansOf(ln[y], short_term) ELSE 0],
                yib, data.forecastYears)

LoanTermsRaise(data) ==
    LET ln == data.historicalLoans
    IN \E y \in HistoricalYears(ln, data.yearsInBusiness) :
          \/ ~ln[y].wellformed
          \/ \E k \in 1..Len(ln[y].loans) : ~ln[y].loans[k].years_numeric

(* a cash that does not add the taxes payable back                         *)
CashWithoutTaxesPayable(n, self_funding, re, ar, pe, ap, ae, tp) ==
    [i \in 1..n |-> self_funding + re[i] - (ar[i] + pe[i] - ap[i] - ae[i])]

(* base_cash - working_capital_adjustment, the loop at the end of the cash *)
(* section; it overwrites every year the cash-flow style loop before it    *)
(* had filled, so that loop leaves nothing behind.                         *)
cash(n, self_funding, re, ar, pe, ap, ae, tp) ==
    [i \in 1..n |->
        LET base_cash == self_funding + re[i]
            working_capital_adjustment == ar[i] + pe[i] - ap[i] - ae[i] - tp[i]
        IN base_cash - working_capital_adjustment]

BalanceRaises(data) ==
    \/ RevenueRaises(data)
    \/ OperatingExpensesRaise(data)
    \/ DepreciationRaises(data)
    \/ InvestmentsRaise(data)
    \/ LoanTermsRaise(data)

Tolerance == Pct(1)

(* the balances built from the series the projection engine returns and    *)
(* from the income statement of the nested call                            *)
Balances(data, n, revenue_array, expenses_array, income_statement_data, owner_drawings, depreciation_bs, gross, inv, stl, ltl) ==
    LET self_funding == data.selfFunding
        net_income_values ==
            BalanceNetIncome(data, income_statement_data, revenue_array,
                             expenses_array)
        re == retained_earnings(n, net_income_values, owner_drawings)
        accumulated == accumulated_depreciation(n, depreciation_bs)
        net_equipment == [i \in 1..n |-> gross[i] - accumulated[i]]
        ar == Ratio(revenue_array, ReceivableRatio)
        ap == Ratio(expenses_array, PayableRatio)
        pe == Ratio(expenses_array, PrepaidRatio)
        ae == Ratio(expenses_array, AccruedRatio)
        tp == taxes_payable(data, income_statement_data, revenue_array,
                            expenses_array)
        c == cash(n, self_funding, re, ar, pe, ap, ae, tp)
    IN [net_income_values |-> net_income_values,
        cash |-> ensure_array_length(c, n),
        accounts_receivable |-> ensure_array_length(ar, n),
        prepaid_expenses |-> ensure_array_length(pe, n),
        equipment_gross |-> ensure_array_length(gross, n),
        accumulated_depreciation |-> ensure_array_length(accumulated, n),
        net_equipment |-> ensure_array_length(net_equipment, n),
        investments |-> ensure_array_length(inv, n),
        accounts_payable |-> ensure_array_length(ap, n),
        short_term_loans |-> ensure_array_length(stl, n),
        accrued_expenses |-> ensure_array_length(ae, n),
        taxes_payable |-> ensure_array_length(tp, n),
        long_term_loans |-> ensure_array_length(ltl, n),
        retained_earnings |-> ensure_array_length(re, n),
        owner_drawings |-> ensure_array_length(owner_drawings, n)]

BalanceLocals(data, current_year) ==
    Balances(data, total_years(data),
             ensure_array_length(total_revenue(data), total_years(data)),
             ensure_array_length(total_operating_expenses(data), total_years(data)),
             _generate_income_statement(data, current_year),
             ensure_array_length(total_owner_compensation(data), total_years(data)),
             ensure_array_length(total_depreciation(data), total_years(data)),
             equipment_gross(data), investments(data),
             loans(data, TRUE), loans(data, FALSE))

BalanceLineItems(data, v) ==
    LET n == total_years(data)
        sf == data.selfFunding
    IN << Header("ASSETS", n),
          Header("Current Assets", n),
          SubItem("    Cash and Cash Equivalents", v.cash),
          SubItem("    Accounts Receivable", v.accounts_receivable),
          SubItem("    Prepaid Expenses", v.prepaid_expenses),
          SubItem("    Other Current Assets", Zeros(n)),
          Total("Total Current Assets",
                [i \in 1..n |-> v.cash[i] + v.accounts_receivable[i]
                                + v.prepaid_expenses[i]]),
          Spacer(n),
          Header("Non-Current Assets", n),
          SubItem("    Property, Plant & Equipment (Gross)", v.equipment_gross),
          SubItem("    Less: Accumulated Depreciation",
                  Neg(v.accumulated_depreciation)),
          SubItem("    Net Equipment", v.net_equipment),
          SubItem("    Investments", v.investments),
          SubItem("    Intangible Assets (if applicable)", Zeros(n)),
          Total("Total Non-Current Assets",
                [i \in 1..n |-> v.net_equipment[i] + v.investments[i]]),
          Spacer(n),
          Total("TOTAL ASSETS",
                [i \in 1..n |-> v.cash[i] + v.accounts_receivable[i]
                                + v.prepaid_expenses[i] + v.net_equipment[i]
                                + v.investments[i]]),
          Spacer(n),
          Header("LIABILITIES", n),
          Header("Current Liabilities", n),
          SubItem("    Accounts Payable", v.accounts_payable),
          SubItem("    Short-Term Loans (Due < 1 Year)", v.short_term_loans),
          SubItem("    Accrued Expenses", v.accrued_expenses),
          SubItem("    Taxes Payable", v.taxes_payable),
          Total("Total Current Liabilities",
                [i \in 1..n |-> v.accounts_payable[i] + v.short_term_loans[i]
                                + v.accrued_expenses[i] + v.taxes_payable[i]]),
          Spacer(n),
          Header("Non-Current Liabilities", n),
          SubItem("    Long-Term Loans", v.long_term_loans),
          SubItem("    Lease Liabilities (if any)", Zeros(n)),
          SubItem("    Deferred Tax Liabilities", Zeros(n)),
          Total("Total Non-Current Liabilities", v.long_term_loans),
          Spacer(n),
          Total("TOTAL LIABILITIES",
                [i \in 1..n |-> v.accounts_payable[i] + v.short_term_loans[i]
                                + v.accrued_expenses[i] + v.taxes_payable[i]
                                + v.long_term_loans[i]]),
          Spacer(n),
          Header("EQUITY", n),
          SubItem("    Common Stock / Share Capital", [i \in 1..n |-> sf]),
          SubItem("    Shareholder Contributions", Zeros(n)),
          SubItem("    Retained Earnings", v.retained_earnings),
          SubItem("    Other Comprehensive Income (OCI)", Zeros(n)),
          Total("TOTAL EQUITY", [i \in 1..n |-> sf + v.retained_earnings[i]]),
          Spacer(n),
          Total("TOTAL LIABILITIES & EQUITY",
                [i \in 1..n |-> v.accounts_payable[i] + v.short_term_loans[i]
                                + v.accrued_expenses[i] + v.taxes_payable[i]
                                + v.long_term_loans[i] + sf
                                + v.retained_earnings[i]]) >>

balance_difference(data, v, i) ==
    LET total_assets == v.cash[i] + v.accounts_receivable[i] + v.prepaid_expenses[i]
                        + v.net_equipment[i] + v.investments[i]
        total_liabilities == v.accounts_payable[i] + v.short_term_loans[i]
                             + v.accrued_expenses[i] + v.taxes_payable[i]
                             + v.long_term_loans[i]
        total_equity == data.selfFunding + v.retained_earnings[i]
    IN total_assets - (total_liabilities + total_equity)

(* a check that reports only the years whose assets are in excess          *)
ErrorsOfExcessAssets(data, v, years) ==
    SelectSeq([i \in 1..total_years(data) |->
                  [year |-> years[i],
                   balance_difference |-> balance_difference(data, v, i)]],
              LAMBDA e : e.balance_difference > Tolerance)

validation_errors(data, v, years) ==
    SelectSeq([i \in 1..total_years(data) |->
                  [year |-> years[i],
                   balance_difference |-> balance_difference(data, v, i)]],
              LAMBDA e : Abs(e.balance_difference) > Tolerance)

BalanceFallback(current_year) ==
    [years |-> FallbackYears(current_year),
     line_items |-> << Plain("Assets"), Plain("Liabilities"), Plain("Equity") >>]

BalanceSheet(data, years, v) ==
    [years |-> years,
     line_items |-> BalanceLineItems(data, v),
     validation |-> [balances |-> Len(validation_errors(data, v, years)) = 0,
                     errors |-> validation_errors(data, v, years)]]

_generate_balance_sheet(data, current_year) ==
    IF BalanceRaises(data) THEN BalanceFallback(current_year)
    ELSE BalanceSheet(data, YearLabels(data, current_year),
                      BalanceLocals(data, current_year))

----------------------------------------------------------------------------
(* Cash flow generator                                                     *)

(* '<text>' in item['label']: the labels of a balance sheet that pass      *)
ContainsEquipmentGross == {"    Property, Plant & Equipment (Gross)"}

ContainsShortTermLoans == {"    Short-Term Loans (Due < 1 Year)"}

ContainsLongTermLoans == {"    Long-Term Loans"}

ContainsCash == {"    Cash and Cash Equivalents"}

(* the simplified calculation, whatever the income statement holds         *)
RecalculatedNetIncome(data, income_statement_data, revenue_cf, expenses_cf) ==
    SimpleNetIncome(total_years(data), revenue_cf, expenses_cf, Pct(data.taxRate))

CashFlowNetIncome(data, income_statement_data, revenue_cf, expenses_cf) ==
    IF HasLine(income_statement_data, IsNetIncomeLabel)
    THEN ensure_array_length(
           Prefix(FirstLine(income_statement_data, IsNetIncomeLabel).values,
                  total_years(data)),
           total_years(data))
    ELSE SimpleNetIncome(total_years(data), revenue_cf, expenses_cf,
                         Pct(data.taxRate))

(* line['values'][:total_years] if line else <fallback>                    *)
LineOr(statement, matching, n, fallback) ==
    IF HasLine(statement, matching)
    THEN Prefix(FirstLine(statement, matching).values, n)
    ELSE fallback

(* changes[i] = balances[i] - balances[i-1] for 1 <= i < len(balances)     *)
Changes(n, balances) ==
    [i \in 1..n |-> IF i > 1 /\ i <= Len(balances)
                    THEN balances[i] - balances[i - 1] ELSE 0]

MaintenanceCapexRatio == Pct(50)

capital_expenditures(data, balance_sheet_data) ==
    LET n == total_years(data)
        yib == data.yearsInBusiness
        eq == data.historicalEquipment
        historical_capex == [y \in 1..yib |-> IF y \in HistoricalYears(eq, yib)
                                              THEN EquipmentCostOf(eq[y]) ELSE 0]
        positive == {y \in 1..yib : historical_capex[y] > 0}
        balances == FirstLine(balance_sheet_data, ContainsEquipmentGross).values
        forecast(i) ==
            IF ~HasLine(balance_sheet_data, ContainsEquipmentGross) \/ i = 1 THEN 0
            ELSE LET equipment_change == balances[i] - balances[i - 1]
                 IN IF equipment_change > 0 THEN equipment_change
                    ELSE IF positive # {}
                         THEN Mul(SumSeq(historical_capex) \div Cardinality(positive),
                                  MaintenanceCapexRatio)
                         ELSE 0
    IN [i \in 1..n |-> IF i <= yib THEN historical_capex[i] ELSE forecast(i)]

investment_purchases(data) ==
    LET yib == data.yearsInBusiness
        inv == data.historicalInvestments
    IN [i \in 1..total_years(data) |->
          IF i \in HistoricalYears(inv, yib) THEN InvestmentAmountOf(inv[i]) ELSE 0]

LoanAmountOf(year_data) ==
    SumSeq([k \in 1..Len(year_data.loans) |-> year_data.loans[k].amount])

LoanChange(balance_sheet_data, i) ==
    LET short_term_balances ==
            FirstLine(balance_sheet_data, ContainsShortTermLoans).values
        long_term_balances ==
            FirstLine(balance_sheet_data, ContainsLongTermLoans).values
    IN (short_term_balances[i] + long_term_balances[i])
       - (short_term_balances[i - 1] + long_term_balances[i - 1])

HasLoanLines(balance_sheet_data) ==
    /\ HasLine(balance_sheet_data, ContainsShortTermLoans)
    /\ HasLine(balance_sheet_data, ContainsLongTermLoans)

loan_proceeds(data, balance_sheet_data) ==
    LET yib == data.yearsInBusiness
        ln == data.historicalLoans
    IN [i \in 1..total_years(data) |->
          IF i > 1 /\ i > yib /\ HasLoanLines(balance_sheet_data)
             /\ LoanChange(balance_sheet_data, i) > 0
          THEN LoanChange(balance_sheet_data, i)
          ELSE IF i \in HistoricalYears(ln, yib) THEN LoanAmountOf(ln[i]) ELSE 0]

loan_repayments(data, balance_sheet_data) ==
    [i \in 1..total_years(data) |->
        IF i > 1 /\ HasLoanLines(balance_sheet_data)
           /\ LoanChange(balance_sheet_data, i) < 0
        THEN Abs(LoanChange(balance_sheet_data, i)) ELSE 0]

owner_investments(data) ==
    [i \in 1..total_years(data) |-> IF i = 1 THEN data.selfFunding ELSE 0]

(* Fallback calculation if balance sheet cash not found                    *)
RECURSIVE FallbackEndingCash(_, _, _)
FallbackEndingCash(i, self_funding, net_change_in_cash) ==
    IF i = 1 THEN self_funding
    ELSE FallbackEndingCash(i - 1, self_funding, net_change_in_cash)
         + net_change_in_cash[i]

(* the accumulation alone, whatever cash the balance sheet holds           *)
AccumulatedEndingCash(data, balance_sheet_data, net_change_in_cash) ==
    [i \in 1..total_years(data) |->
        FallbackEndingCash(i, data.selfFunding, net_change_in_cash)]

ending_cash(data, balance_sheet_data, net_change_in_cash) ==
    IF HasLine(balance_sheet_data, ContainsCash)
    THEN ensure_array_length(
           Prefix(FirstLine(balance_sheet_data, ContainsCash).values,
                  total_years(data)),
           total_years(data))
    ELSE [i \in 1..total_years(data) |->
            FallbackEndingCash(i, data.selfFunding, net_change_in_cash)]

(* the opening balance taken to be the owner's investment                  *)
OpeningAtEnding(n, ending) ==
    [i \in 1..n |-> IF i = 1 THEN ending[1] ELSE ending[i - 1]]

beginning_cash(n, ending) == [i \in 1..n |-> IF i = 1 THEN 0 ELSE ending[i - 1]]

(* owner_investments[0] = self_funding_amount is an IndexError when the    *)
(* statement has no year                                                   *)
CashFlowRaises(data) ==
    \/ RevenueRaises(data)
    \/ OperatingExpensesRaise(data)
    \/ DepreciationRaises(data)
    \/ InvestmentsRaise(data)
    \/ InterestRaises(data)
    \/ total_years(data) = 0

(* the flows built from the series the projection engine returns and from  *)
(* the statements of the two nested calls                                  *)
CashFlows(data, n, owner_drawings, revenue_cf, expenses_cf, depreciation_cf, income_statement_data, balance_sheet_data) ==
    LET ni == CashFlowNetIncome(data, income_statement_data, revenue_cf, expenses_cf)
        ar == LineOr(balance_sheet_data, {"    Accounts Receivable"}, n,
                     Ratio(revenue_cf, ReceivableRatio))
        ap == LineOr(balance_sheet_data, {"    Accounts Payable"}, n,
                     Ratio(expenses_cf, PayableRatio))
        pe == LineOr(balance_sheet_data, {"    Prepaid Expenses"}, n,
                     Ratio(expenses_cf, PrepaidRatio))
        changes_in_ar == Changes(n, ar)
        changes_in_ap == Changes(n, ap)
        changes_in_prepaid == Changes(n, pe)
        capex == capital_expenditures(data, balance_sheet_data)
        purchases == investment_purchases(data)
        proceeds == loan_proceeds(data, balance_sheet_data)
        repayments == loan_repayments(data, balance_sheet_data)
        owner_inv == owner_investments(data)
        operations == [i \in 1..n |-> At(ni, i) + At(depreciation_cf, i)
                                      - At(changes_in_ar, i) + At(changes_in_ap, i)
                                      - At(changes_in_prepaid, i)]
        investing == [i \in 1..n |-> (0 - At(capex, i)) - At(purchases, i)]
        financing == [i \in 1..n |-> At(owner_inv, i) - At(owner_drawings, i)
                                     + At(proceeds, i) - At(repayments, i)]
        summed == [i \in 1..n |-> operations[i] + investing[i] + financing[i]]
        ending == ending_cash(data, balance_sheet_data, summed)
        beginning == beginning_cash(n, ending)
    IN [net_income |-> ni,
        depreciation_cf |-> depreciation_cf,
        changes_in_ar |-> changes_in_ar,
        changes_in_ap |-> changes_in_ap,
        changes_in_prepaid |-> changes_in_prepaid,
        net_cash_from_operations |-> operations,
        capital_expenditures |-> capex,
        investment_purchases |-> purchases,
        net_cash_from_investing |-> investing,
        owner_investments |-> owner_inv,
        owner_drawings |-> owner_drawings,
        loan_proceeds |-> proceeds,
        loan_repayments |-> repayments,
        net_cash_from_financing |-> financing,
        net_change_in_cash |-> [i \in 1..n |-> ending[i] - beginning[i]],
        beginning_cash |-> beginning,
        ending_cash |-> ending]

CashFlowLocals(data, current_year) ==
    CashFlows(data, total_years(data),
              ensure_array_length(total_owner_compensation(data), total_years(data)),
              ensure_array_length(total_revenue(data), total_years(data)),
              ensure_array_length(total_operating_expenses(data), total_years(data)),
              ensure_array_length(total_depreciation(data), total_years(data)),
              _generate_income_statement(data, current_year),
              _generate_balance_sheet(data, current_year))

CashFlowLineItems(data, v) ==
    LET n == total_years(data)
    IN << Header("OPERATING ACTIVITIES", n),
          SubItem("    Net Income", v.net_income),
          SubItem("    Depreciation & Amortization (Add Back)", v.depreciation_cf),
          Header("    Changes in Working Capital", n),
          SubItem("        Accounts Receivable", Neg(v.changes_in_ar)),
          SubItem("        Accounts Payable", v.changes_in_ap),
          SubItem("        Prepaid Expenses", Neg(v.changes_in_prepaid)),
          Total("    Net Cash from Operations", v.net_cash_from_operations),
          Spacer(n),
          Header("INVESTING ACTIVITIES", n),
          SubItem("    Capital Expenditures", Neg(v.capital_expenditures)),
          SubItem("    Investment Purchases", Neg(v.investment_purchases)),
          Total("    Net Cash from Investing", v.net_cash_from_investing),
          Spacer(n),
          Header("FINANCING ACTIVITIES", n),
          SubItem("    Owner Investments", v.owner_investments),
          SubItem("    Owner Drawings", Neg(v.owner_drawings)),
          SubItem("    Loan Proceeds", v.loan_proceeds),
          SubItem("    Loan Repayments", Neg(v.loan_repayments)),
          Total("    Net Cash from Financing", v.net_cash_from_financing),
          Spacer(n),
          Total("NET CHANGE IN CASH", v.net_change_in_cash),
          SubItem("    Beginning Cash", v.beginning_cash),
          Total("    Ending Cash", v.ending_cash) >>

CashFlowFallback(current_year) ==
    [years |-> FallbackYears(current_year),
     line_items |-> << Plain("Operating Activities"), Plain("Investing Activities"),
                       Plain("Financing Activities"), Plain("Net Change in Cash") >>]

(* the statement with the calendar years gone by since the request was     *)
(* drawn up counted as years in business                                   *)
CashFlowOfAgedBusiness(data, current_year) ==
    LET aged == [data EXCEPT !.yearsInBusiness = @ + current_year]
    IN IF CashFlowRaises(aged) THEN CashFlowFallback(current_year)
       ELSE [years |-> YearLabels(aged, current_year),
             line_items |-> CashFlowLineItems(aged,
                                              CashFlowLocals(aged, current_year))]

_generate_cash_flow_statement(data, current_year) ==
    IF CashFlowRaises(data) THEN CashFlowFallback(current_year)
    ELSE [years |-> YearLabels(data, current_year),
          line_items |-> CashFlowLineItems(data,
                                           CashFlowLocals(data, current_year))]

----------------------------------------------------------------------------
(* The payloads a request may carry.  A payload holds `records` years of   *)
(* history in each of its six lists, whatever yearsInBusiness says; the    *)
(* lists differ in what their year entries hold.                           *)

MaxYears == 2

MaxForecast == 2

MaxRecords == 2

MaxNewYears == 1

Amount(units) == units * Scale

ServiceYear(kind, y, records) ==
    LET consulting(revenue, clients, cost) ==
            [name |-> "consulting", historicalRevenue |-> Amount(revenue),
             historicalClients |-> Amount(clients), cost |-> Amount(cost)]
        support == [name |-> "support", historicalRevenue |-> Amount(300),
                    historicalClients |-> Amount(3), cost |-> Amount(100)]
    IN CASE kind = "steady" ->
              [wellformed |-> TRUE,
               services |-> IF y % 2 = 0
                            THEN <<consulting(1000 + 200 * y, 10 + 2 * y, 400), support>>
                            ELSE <<consulting(1000 + 200 * y, 10 + 2 * y, 400)>>]
         [] kind = "turnaround" ->
              [wellformed |-> TRUE,
               services |-> IF y = 1 THEN <<consulting(200, 5, 300)>>
                            ELSE <<consulting(2000, 10, 500)>>]
         [] kind = "no_clients" ->
              [wellformed |-> TRUE, services |-> <<consulting(500, 0, 100)>>]
         [] kind = "malformed" ->
              [wellformed |-> y < records,
               services |-> IF y < records THEN <<consulting(1000, 10, 400)>>
                            ELSE <<>>]

ExpenseYear(y) ==
    [wellformed |-> TRUE,
     expenses |-> <<[category |-> "rent", historicalAmount |-> Amount(300)],
                    [category |-> "marketing", historicalAmount |-> Amount(100 * y)]>>]

EquipmentYear(kind, y) ==
    [wellformed |-> TRUE,
     equipment |-> IF kind = "none" THEN <<>>
                   ELSE <<[cost |-> Amount(1000 * y), usefulLife |-> Amount(5)]>>]

InvestmentYear(kind, y) ==
    [wellformed |-> TRUE,
     investments |-> IF kind = "none" THEN <<>>
                     ELSE <<[amount |-> Amount(500), income |-> TRUE,
                             incomeAmount |-> Amount(50)]>>]

LoanYear(kind, y) ==
    [wellformed |-> TRUE,
     loans |-> IF kind = "none" THEN <<>>
               ELSE IF y = 1
                    THEN <<[amount |-> Amount(2000), rate |-> 5, years |-> Amount(5),
                            years_numeric |-> kind # "loan_years_text"]>>
                    ELSE <<[amount |-> Amount(1500), rate |-> 5, years |-> Amount(5),
                            years_numeric |-> TRUE],
                           [amount |-> Amount(200), rate |-> 10, years |-> Amount(1),
                            years_numeric |-> TRUE]>>]

OtherYear(kind, y, records) ==
    [wellformed |-> ~(kind = "malformed" /\ y = records),
     other |-> IF kind = "mixed"
               THEN <<[amount |-> Amount(50), isIncome |-> TRUE],
                      [amount |-> Amount(20), isIncome |-> FALSE]>>
               ELSE <<>>]

ServiceKinds == {"steady", "turnaround", "no_clients", "malformed"}

AssetKinds == {"none", "financed", "loan_years_text"}

OtherKinds == {"none", "mixed", "malformed"}

OwnerDrawingsChoices ==
    {[amount |-> 0, frequency |-> "annual"],
     [amount |-> Amount(10), frequency |-> "monthly"]}

DefaultServiceBusinessModel ==
    [clientRetentionRate |-> 85, clientAcquisitionCost |-> 0,
     customerLifetimeValue |-> 0, expansionRevenuePercent |-> 25,
     seasonalityFactor |-> 20, utilizationRate |-> 75,
     teamSize |-> Amount(10), teamGrowthRate |-> 20]

Payload(yib, fy, records, services, assets, other, drawings) ==
    [yearsInBusiness |-> yib,
     forecastYears |-> fy,
     taxRate |-> 25,
     selfFunding |-> Amount(5000),
     revenueGrowthRate |-> 10,
     customerGrowthRate |-> 0,
     expenseGrowthRate |-> 5,
     ownerDrawings |-> drawings,
     serviceBusinessModel |-> DefaultServiceBusinessModel,
     historicalServices |-> [y \in 1..records |-> ServiceYear(services, y, records)],
     historicalExpenses |-> [y \in 1..records |-> ExpenseYear(y)],
     historicalEquipment |-> [y \in 1..records |-> EquipmentYear(assets, y)],
     historicalLoans |-> [y \in 1..records |-> LoanYear(assets, y)],
     historicalOther |-> [y \in 1..records |-> OtherYear(other, y, records)],
     historicalInvestments |-> [y \in 1..records |-> InvestmentYear(assets, y)]]

Payloads ==
    {Payload(yib, fy, records, services, assets, other, drawings) :
        yib \in 0..MaxYears, fy \in 0..MaxForecast, records \in 0..MaxRecords,
        services \in ServiceKinds, assets \in AssetKinds, other \in OtherKinds,
        drawings \in OwnerDrawingsChoices}

----------------------------------------------------------------------------
(* calculate_historical_statements of the service company                  *)
(* (ServiceHistoricalService): validation, processing, assumptions,        *)
(* metrics, the three statements, the result.                              *)

(* d.get(key, default)                                                     *)
Get(d, key, default) == IF key \in DOMAIN d THEN d[key] ELSE default

(* the errors of one year entry: a missing 'services' key, or per service  *)
(* a negative revenue and then a negative cost                             *)
YearErrors(year_data, year_idx) ==
    IF "services" \notin DOMAIN year_data
    THEN << <<"Missing services data for year", year_idx>> >>
    ELSE Flatten([k \in 1..Len(year_data.services) |->
            (IF year_data.services[k].historicalRevenue < 0
             THEN << <<"Revenue cannot be negative in year", year_idx, k>> >>
             ELSE <<>>)
            \o (IF year_data.services[k].cost < 0
                THEN << <<"Cost cannot be negative in year", year_idx, k>> >>
                ELSE <<>>)])

GrowthWarnings(data) ==
    (IF data.revenueGrowthRate > 100
     THEN << <<"Revenue growth rate seems unusually high">> >> ELSE <<>>)
    \o (IF data.expenseGrowthRate > 100
        THEN << <<"Expense growth rate seems unusually high">> >> ELSE <<>>)

ValidationErrors(data) ==
    (IF Len(data.historicalServices) = 0
     THEN << <<"Historical services data is required">> >> ELSE <<>>)
    \o Flatten([y \in 1..Len(data.historicalServices) |->
                    YearErrors(data.historicalServices[y], y)])

(* 'services' not in year_data is a TypeError on an entry that is no       *)
(* container                                                               *)
ValidationRaises(data) ==
    \E y \in 1..Len(data.historicalServices) :
        ~data.historicalServices[y].wellformed

(* a validation whose warnings block like errors                           *)
ValidationBlockedByWarnings(data) ==
    [valid |-> Len(ValidationErrors(data)) = 0 /\ Len(GrowthWarnings(data)) = 0,
     errors |-> ValidationErrors(data),
     warnings |-> GrowthWarnings(data)]

validate_historical_data(data) ==
    [valid |-> Len(ValidationErrors(data)) = 0,
     errors |-> ValidationErrors(data),
     warnings |-> GrowthWarnings(data)]

process_historical_data(data) == data

apply_company_specific_assumptions(data) == data

(* the sums over every year entry and every service of it                  *)
AllServices(data) ==
    Flatten([y \in 1..Len(data.historicalServices) |->
                Get(data.historicalServices[y], "services", <<>>)])

TotalHistoricalRevenue(data) ==
    SumSeq([k \in 1..Len(AllServices(data)) |->
                AllServices(data)[k].historicalRevenue])

TotalHistoricalClients(data) ==
    SumSeq([k \in 1..Len(AllServices(data)) |->
                AllServices(data)[k].historicalClients])

(* total_revenue is assigned only under team_size > 0 and read under       *)
(* total_customers > 0: UnboundLocalError                                  *)
MetricsRaise(data) ==
    /\ Get(Get(data, "serviceBusinessModel", <<>>), "teamSize", Amount(10)) <= 0
    /\ TotalHistoricalClients(data) > 0

(* sum(health_factors) / len(health_factors), 0.5 without any factor       *)
HealthScore(client_retention_rate, cac_efficiency, recurring_revenue_percent, utilization_rate) ==
    LET factors ==
            (IF client_retention_rate > 0
             THEN <<Min(Div(client_retention_rate, Amount(85)), 120)>> ELSE <<>>)
            \o (IF cac_efficiency > 0
                THEN <<Min(Div(cac_efficiency, Amount(3)), 150)>> ELSE <<>>)
            \o (IF recurring_revenue_percent > 0
                THEN <<Min(Div(recurring_revenue_percent, Amount(60)), 120)>>
                ELSE <<>>)
            \o (IF utilization_rate > 0
                THEN <<Min(Div(utilization_rate, Amount(75)), 120)>> ELSE <<>>)
    IN IF Len(factors) > 0 THEN SumSeq(factors) \div Len(factors) ELSE Scale \div 2

Metrics(m, total_revenue_all, total_customers) ==
    LET client_retention_rate == Amount(Get(m, "clientRetentionRate", 85))
        churn_rate == Amount(Get(m, "churnRate", 15))
        cac == Get(m, "clientAcquisitionCost", 0)
        clv == Get(m, "customerLifetimeValue", 0)
        recurring_revenue_percent == Amount(Get(m, "recurringRevenuePercent", 60))
        expansion_revenue_percent == Amount(Get(m, "expansionRevenuePercent", 25))
        seasonality_factor == Amount(Get(m, "seasonalityFactor", 20))
        utilization_rate == Amount(Get(m, "utilizationRate", 75))
        team_size == Get(m, "teamSize", Amount(10))
        team_growth_rate == Amount(Get(m, "teamGrowthRate", 20))
        avg_project_duration == Amount(Get(m, "averageProjectDuration", 90))
        cac_efficiency == IF cac > 0 /\ clv > 0 THEN Div(clv, cac) ELSE 0
    IN [client_retention_rate |-> client_retention_rate,
        churn_rate |-> churn_rate,
        utilization_rate |-> utilization_rate,
        team_size |-> team_size,
        team_growth_rate |-> team_growth_rate,
        seasonality_factor |-> seasonality_factor,
        recurring_revenue_percent |-> recurring_revenue_percent,
        expansion_revenue_percent |-> expansion_revenue_percent,
        avg_project_duration |-> avg_project_duration,
        cac_efficiency |-> cac_efficiency,
        cac_payback_months |->
            IF cac > 0 /\ clv > 0
            THEN Div(cac, Div(clv, Amount(MonthsPerYear))) ELSE 0,
        revenue_per_employee |->
            IF team_size > 0 THEN Div(total_revenue_all, team_size) ELSE 0,
        avg_revenue_per_customer |->
            IF total_customers > 0 THEN Div(total_revenue_all, total_customers)
            ELSE 0,
        customer_concentration_risk |->
            IF total_customers > 0 THEN Div(Scale, total_customers) ELSE Scale,
        capacity_efficiency |->
            IF utilization_rate > 0 /\ team_size > 0
            THEN Div(utilization_rate, Amount(100)) ELSE 0,
        team_productivity_score |->
            IF utilization_rate > 0 /\ team_size > 0
            THEN Div(Mul(utilization_rate, team_growth_rate), Amount(100)) ELSE 0,
        business_model_health_score |->
            HealthScore(client_retention_rate, cac_efficiency,
                        recurring_revenue_percent, utilization_rate)]

calculate_company_specific_metrics(data) ==
    Metrics(Get(data, "serviceBusinessModel", <<>>),
            TotalHistoricalRevenue(data), TotalHistoricalClients(data))

(* the requests of a call: a payload, its team size and revenue growth     *)
(* rate, and the last year entry of historicalServices as is, without its  *)
(* 'services' key, or with a negative revenue or cost                      *)
TeamSizes == {0, Amount(10)}

GrowthRates == {10, 150}

Shapes == {"as_is", "no_services_key", "negative_revenue", "negative_cost"}

Reshaped(year_data, shape) ==
    IF shape = "as_is" \/ ~year_data.wellformed \/ Len(year_data.services) = 0
    THEN year_data
    ELSE IF shape = "no_services_key" THEN [wellformed |-> TRUE]
    ELSE IF shape = "negative_revenue"
    THEN [year_data EXCEPT !.services[1].historicalRevenue = 0 - @]
    ELSE [year_data EXCEPT !.services[1].cost = 0 - @]

Request(payload, team_size, growth_rate, shape) ==
    [payload EXCEPT
        !.serviceBusinessModel.teamSize = team_size,
        !.revenueGrowthRate = growth_rate,
        !.historicalServices =
            [y \in 1..Len(@) |-> IF y = Len(@) THEN Reshaped(@[y], shape) ELSE @[y]]]

Requests ==
    {Request(Payload(yib, 1, records, services, assets, other,
                     [amount |-> 0, frequency |-> "annual"]),
             team_size, growth_rate, shape) :
        yib \in 1..MaxYears, records \in 0..MaxRecords, services \in ServiceKinds,
        assets \in {"none", "loan_years_text"}, other \in {"none", "malformed"},
        team_size \in TeamSizes, growth_rate \in GrowthRates, shape \in Shapes}

----------------------------------------------------------------------------
(* Valuation (services/dcf_calculation.py)                                 *)
(*                                                                         *)
(* Numbers.  Cash flows and values are amounts in Scale units per 1.0;     *)
(* rates, growth factors and periods are fixed-point numbers with          *)
(* RateScale units per 1.0, so a rate of 0.1 is 1000 and a period of 1.5   *)
(* is 15000.  A float quotient is Quot, rounded towards zero.  A Python    *)
(* None is the value None, a float x is Number(x), and a call that an      *)
(* exception leaves is Raised(name of the exception).                      *)

RateScale == 10000

None == [none |-> TRUE]

Number(x) == [number |-> x]

Raised(exception) == [raised |-> exception]

Quot(a, b) ==
    IF (a < 0) = (b < 0) THEN Abs(a) \div Abs(b) ELSE 0 - (Abs(a) \div Abs(b))

(* factor * multiplier for two fixed-point numbers that are not negative   *)
Times(factor, multiplier) ==
    (factor \div RateScale) * multiplier
        + ((factor % RateScale) * multiplier) \div RateScale

(* (1 + rate) ** n                                                         *)
RECURSIVE Growth(_, _)
Growth(rate, n) ==
    IF n <= 0 THEN RateScale ELSE Times(Growth(rate, n - 1), RateScale + rate)

(* sum(cf / ((1 + rate) ** t) for t, cf in enumerate(cash_flows)), from    *)
(* the term of index t on                                                  *)
RECURSIVE NpvFrom(_, _, _)
NpvFrom(cash_flows, rate, t) ==
    IF t >= Len(cash_flows) THEN 0
    ELSE Quot(cash_flows[t + 1] * RateScale, Growth(rate, t))
            + NpvFrom(cash_flows, rate, t + 1)

calculate_npv(cash_flows, discount_rate) ==
    IF Len(cash_flows) = 0 THEN 0 ELSE NpvFrom(cash_flows, discount_rate, 0)

(* sum(-t * cf / ((1 + rate) ** (t + 1)) for t, cf in                      *)
(* enumerate(cash_flows)), from the term of index t on                     *)
RECURSIVE DerivativeFrom(_, _, _)
DerivativeFrom(cash_flows, rate, t) ==
    IF t >= Len(cash_flows) THEN 0
    ELSE Quot((0 - t) * cash_flows[t + 1] * RateScale, Growth(rate, t + 1))
            + DerivativeFrom(cash_flows, rate, t + 1)

(* the bounds an updated rate must keep: -0.99 and 10                      *)
LowestRate == 0 - (99 * RateScale) \div 100

HighestRate == 10 * RateScale

(* what calculate_irr returns, the Newton steps it began, and the          *)
(* statement it left by                                                    *)
Left(value, steps, exit) == [value |-> value, steps |-> steps, exit |-> exit]

(* for iteration in range(max_iter): one pass of the loop body, with the   *)
(* npv and d_npv of the pass, and the check of the updated rate            *)
RECURSIVE Newton(_, _, _, _, _)
RECURSIVE NewtonStep(_, _, _, _, _, _, _)
RECURSIVE NewtonUpdate(_, _, _, _, _)
(* a loop that returns the rate of a pass whatever its npv                 *)
NewtonWithoutTolerance(cash_flows, rate, iteration, max_iter, tol, npv, d_npv) ==
    IF iteration >= 1 THEN Left(Number(rate), iteration + 1, "converged")
    ELSE IF d_npv = 0 THEN Left(None, iteration + 1, "zero_derivative")
    ELSE NewtonUpdate(cash_flows, rate - Quot(npv * RateScale, d_npv),
                      iteration, max_iter, tol)

Newton(cash_flows, rate, iteration, max_iter, tol) ==
    IF iteration >= max_iter
    THEN Left(None, iteration, "exhausted")
    ELSE NewtonStep(cash_flows, rate, iteration, max_iter, tol,
                    NpvFrom(cash_flows, rate, 0), DerivativeFrom(cash_flows, rate, 0))

NewtonStep(cash_flows, rate, iteration, max_iter, tol, npv, d_npv) ==
    IF Abs(npv) < tol THEN Left(Number(rate), iteration + 1, "converged")
    ELSE IF d_npv = 0 THEN Left(None, iteration + 1, "zero_derivative")
    ELSE NewtonUpdate(cash_flows, rate - Quot(npv * RateScale, d_npv),
                      iteration, max_iter, tol)

NewtonUpdate(cash_flows, rate, iteration, max_iter, tol) ==
    IF rate < LowestRate \/ rate > HighestRate
    THEN Left(None, iteration + 1, "out_of_range")
    ELSE Newton(cash_flows, rate, iteration + 1, max_iter, tol)

calculate_irr(cash_flows, guess, max_iter, tol) ==
    IF Len(cash_flows) = 0 THEN Left(None, 0, "empty")
    ELSE IF \A k \in 1..Len(cash_flows) : cash_flows[k] >= 0
    THEN Left(None, 0, "no_outflow")
    ELSE IF \A k \in 1..Len(cash_flows) : cash_flows[k] <= 0
    THEN Left(None, 0, "no_inflow")
    ELSE Newton(cash_flows, guess, 0, max_iter, tol)

(* for i, cf in enumerate(cash_flows): the loop from index i on, with the  *)
(* cumulative cash flow before it, and the three returns after the loop    *)
RECURSIVE PaybackFrom(_, _, _)
PaybackFrom(cash_flows, i, cumulative) ==
    IF i >= Len(cash_flows)
    THEN IF cumulative < 0 THEN Number(999 * RateScale)
         ELSE IF \A k \in 1..Len(cash_flows) : cash_flows[k] >= 0 THEN Number(0)
         ELSE None
    ELSE IF cumulative < 0 /\ cumulative + cash_flows[i + 1] >= 0
    THEN IF cash_flows[i + 1] # 0
         THEN Number(i * RateScale
                        - Quot(cumulative * RateScale, cash_flows[i + 1]))
         ELSE Number(i * RateScale)
    ELSE PaybackFrom(cash_flows, i + 1, cumulative + cash_flows[i + 1])

calculate_payback_period(cash_flows) ==
    IF Len(cash_flows) = 0 THEN None ELSE PaybackFrom(cash_flows, 0, 0)

(* the least difference of discount rate and growth a perpetuity is        *)
(* computed for: 0.001                                                     *)
PerpetuityMargin == RateScale \div 1000

(* a perpetuity computed for every positive difference                     *)
TerminalValueOfAnySpread(method, last_fcf, discount_rate, terminal_growth, tv_metric_value, tv_multiple, tv_custom_value) ==
    IF method = "perpetuity"
    THEN IF discount_rate - terminal_growth > 0
         THEN Quot(last_fcf * (RateScale + terminal_growth),
                   discount_rate - terminal_growth)
         ELSE 0
    ELSE IF method = "exit-multiple" THEN Mul(tv_metric_value, tv_multiple)
    ELSE IF method = "liquidation" THEN tv_custom_value
    ELSE 0

calculate_terminal_value(method, last_fcf, discount_rate, terminal_growth, tv_metric_value, tv_multiple, tv_custom_value) ==
    IF method = "perpetuity"
    THEN IF discount_rate - terminal_growth > PerpetuityMargin
         THEN Quot(last_fcf * (RateScale + terminal_growth),
                   discount_rate - terminal_growth)
         ELSE 0
    ELSE IF method = "exit-multiple" THEN Mul(tv_metric_value, tv_multiple)
    ELSE IF method = "liquidation" THEN tv_custom_value
    ELSE IF method = "none" THEN 0
    ELSE 0

(* for fcf, factor in zip(free_cash_flows, discount_factors): dcf += ...,  *)
(* from the term of index t on                                             *)
RECURSIVE DiscountedFrom(_, _, _)
DiscountedFrom(free_cash_flows, discount_rate, t) ==
    IF t >= Len(free_cash_flows) THEN 0
    ELSE Quot(free_cash_flows[t + 1] * RateScale, Growth(discount_rate, t + 1))
            + DiscountedFrom(free_cash_flows, discount_rate, t + 1)

calculate_dcf_value(free_cash_flows, discount_rate, terminal_value, terminal_year) ==
    IF Len(free_cash_flows) = 0 THEN 0
    ELSE DiscountedFrom(free_cash_flows, discount_rate, 0)
         + (IF terminal_value # None
            THEN Quot(terminal_value.number * RateScale,
                      Growth(discount_rate,
                             IF terminal_year # None THEN terminal_year.number
                             ELSE Len(free_cash_flows)))
            ELSE 0)

(* @lru_cache(maxsize=128) around calculate_dcf_value_cached.  The cache   *)
(* is the list of its entries, the least recently used first; an entry is  *)
(* the key of a call and the value computed for it.                        *)
maxsize == 128

(* the first three positional arguments of the call                        *)
KeyWithoutTerminalYear(args) == SubSeq(args, 1, Min(3, Len(args)))

(* the key of a call: its positional arguments as they were passed         *)
CacheKey(args) == args

(* the wrapped function on the arguments of a call, terminal_value and     *)
(* terminal_year None where they were not passed                           *)
DcfOfArgs(args) ==
    calculate_dcf_value(args[1], args[2],
                        IF Len(args) >= 3 THEN args[3] ELSE None,
                        IF Len(args) >= 4 THEN args[4] ELSE None)

KeyIndex(entries, key) ==
    IF \E k \in 1..Len(entries) : entries[k].key = key
    THEN CHOOSE k \in 1..Len(entries) : entries[k].key = key
    ELSE 0

Without(entries, k) == SubSeq(entries, 1, k - 1) \o SubSeq(entries, k + 1, Len(entries))

(* a hit returns the stored value and makes the entry the most recent      *)
Hit(entries, k) ==
    [cache |-> Append(Without(entries, k), entries[k]),
     value |-> entries[k].value,
     hit |-> TRUE]

(* a miss computes the value and stores it, in place of the least recently *)
(* used entry when the cache is full                                       *)
Miss(entries, key, value) ==
    [cache |-> Append(IF Len(entries) >= maxsize THEN Tail(entries) ELSE entries,
                      [key |-> key, value |-> value]),
     value |-> value,
     hit |-> FALSE]

Lookup(entries, args, k) ==
    IF k > 0 THEN Hit(entries, k) ELSE Miss(entries, CacheKey(args), DcfOfArgs(args))

calculate_dcf_value_cached(entries, args) ==
    Lookup(entries, args, KeyIndex(entries, CacheKey(args)))

(* the terminal value the dashboard hands to the sweeps: a multiple of 20  *)
(* where the discount rate does not exceed the growth rate                 *)
terminal_value_func(last_fcf, growth_rate, discount_rate) ==
    IF discount_rate <= growth_rate THEN last_fcf * 20
    ELSE Quot(last_fcf * (RateScale + growth_rate), discount_rate - growth_rate)

(* for wacc in wacc_range: for growth in terminal_growth_range: the cells  *)
(* of the matrix, row by row, from the one after the Len(dcfs) cells       *)
(* already computed on, with the cache the calls leave                     *)
RECURSIVE MatrixFrom(_, _, _, _, _)
RECURSIVE MatrixNext(_, _, _, _, _)
MatrixFrom(entries, free_cash_flows, wacc_range, terminal_growth_range, dcfs) ==
    IF Len(dcfs) >= Len(wacc_range) * Len(terminal_growth_range)
    THEN [cache |-> entries, dcfs |-> dcfs]
    ELSE MatrixNext(
            calculate_dcf_value_cached(entries,
                <<free_cash_flows,
                  wacc_range[(Len(dcfs) \div Len(terminal_growth_range)) + 1],
                  Number(terminal_value_func(
                      free_cash_flows[Len(free_cash_flows)],
                      terminal_growth_range[(Len(dcfs) % Len(terminal_growth_range)) + 1],
                      wacc_range[(Len(dcfs) \div Len(terminal_growth_range)) + 1]))>>),
            free_cash_flows, wacc_range, terminal_growth_range, dcfs)

MatrixNext(call, free_cash_flows, wacc_range, terminal_growth_range, dcfs) ==
    MatrixFrom(call.cache, free_cash_flows, wacc_range, terminal_growth_range,
               Append(dcfs, call.value))

MatrixRows(swept, wacc_range, terminal_growth_range) ==
    [cache |-> swept.cache,
     value |-> [w \in 1..Len(wacc_range) |->
                  [wacc |-> wacc_range[w],
                   values |-> [g \in 1..Len(terminal_growth_range) |->
                       [growth |-> terminal_growth_range[g],
                        dcf |-> swept.dcfs[(w - 1) * Len(terminal_growth_range) + g]]]]]]

calculate_sensitivity_matrix(entries, free_cash_flows, wacc_range, terminal_growth_range) ==
    IF Len(free_cash_flows) = 0 THEN [cache |-> entries, value |-> <<>>]
    ELSE MatrixRows(MatrixFrom(entries, free_cash_flows, wacc_range,
                               terminal_growth_range, <<>>),
                    wacc_range, terminal_growth_range)

----------------------------------------------------------------------------
(* Dashboard KPIs (services/historical/dashboard) and scenarios            *)

(* DashboardCalculator.calculate_growth_rate, a percentage                 *)
calculate_growth_rate(values) ==
    IF Len(values) < 2 THEN 0
    ELSE IF values[1] = 0 THEN 0
    ELSE Quot((values[Len(values)] - values[1]) * 100 * Scale, values[1])

(* the ratios of the base year: (a / b * 100) if b != 0 else 0             *)
DashboardRatios(total_revenue_value, net_income_value, ebitda_value, total_assets, total_liabilities, total_equity, current_assets, current_liabilities) ==
    [profit_margin |->
        IF total_revenue_value # 0 THEN Quot(net_income_value * 100 * Scale, total_revenue_value) ELSE 0,
     ebitda_margin |->
        IF total_revenue_value # 0 THEN Quot(ebitda_value * 100 * Scale, total_revenue_value) ELSE 0,
     roe |->
        IF total_equity # 0 THEN Quot(net_income_value * 100 * Scale, total_equity) ELSE 0,
     asset_turnover |->
        IF total_assets # 0 THEN Quot(total_revenue_value * Scale, total_assets) ELSE 0,
     current_ratio |->
        IF current_liabilities # 0 THEN Quot(current_assets * Scale, current_liabilities)
        ELSE 0,
     debt_to_equity |->
        IF total_equity # 0 THEN Quot(total_liabilities * Scale, total_equity) ELSE 0]

(* terminal_value = (final_year_net_income * (1 + terminal_growth/100))    *)
(*                  / ((wacc/100) - (terminal_growth/100)),                *)
(* wacc and terminal_growth in percent; the quotient has no guard          *)
DashboardTerminalValue(net_income_values, wacc, terminal_growth) ==
    IF Len(net_income_values) = 0 THEN Number(0)
    ELSE IF wacc - terminal_growth = 0 THEN Raised("ZeroDivisionError")
    ELSE Number(Quot(net_income_values[Len(net_income_values)] * (100 + terminal_growth),
                     wacc - terminal_growth))

(* _calculate_comprehensive_dashboard_kpis from the figures it has read    *)
(* off the statements to its terminal value                                *)
DashboardKpis(ratios, terminal_value) ==
    IF terminal_value = Raised("ZeroDivisionError") THEN terminal_value
    ELSE [ratios |-> ratios, terminal_value |-> terminal_value.number]

(* (a / b) if b > 0 else None                                              *)
Over(numerator, denominator, defined) ==
    IF defined THEN Number(Quot(numerator * Scale, denominator)) ELSE None

_calculate_base_ratios(total_revenue_value, total_expenses, net_income_value, ebitda_value, total_assets, total_equity, current_assets, current_liabilities, total_liabilities, revenue_values) ==
    [profit_margin |-> Over(net_income_value * 100, total_revenue_value, total_revenue_value > 0),
     gross_margin |->
        Over((total_revenue_value - total_expenses) * 100, total_revenue_value, total_revenue_value > 0),
     operating_margin |-> Over(ebitda_value * 100, total_revenue_value, total_revenue_value > 0),
     ebitda_margin |-> Over(ebitda_value * 100, total_revenue_value, total_revenue_value > 0),
     roa |-> Over(net_income_value * 100, total_assets, total_assets > 0),
     roe |-> Over(net_income_value * 100, total_equity, total_equity > 0),
     asset_turnover |-> Over(total_revenue_value, total_assets, total_assets > 0),
     expense_ratio |-> Over(total_expenses * 100, total_revenue_value, total_revenue_value > 0),
     current_ratio |->
        Over(current_assets, current_liabilities,
             current_liabilities > 0 /\ current_assets > 0),
     working_capital |->
        IF current_assets > 0 /\ current_liabilities > 0
        THEN Number(current_assets - current_liabilities) ELSE None,
     quick_ratio |->
        Over(current_assets, current_liabilities,
             current_liabilities > 0 /\ current_assets > 0),
     debt_to_equity |->
        Over(total_liabilities, total_equity, total_equity > 0 /\ total_liabilities >= 0),
     debt_ratio |->
        Over(total_liabilities * 100, total_assets,
             total_assets > 0 /\ total_liabilities >= 0),
     equity_ratio |->
        Over(total_equity * 100, total_assets, total_assets > 0 /\ total_equity >= 0),
     revenue_growth |->
        Number(IF Len(revenue_values) > 1 THEN calculate_growth_rate(revenue_values) ELSE 0),
     terminal_value |-> Number(IF total_revenue_value > 0 THEN (total_revenue_value * 5) \div 2 ELSE 0),
     wacc |-> Number(10 * Scale)]

(* the revenue of the adjusted years of a scenario: the first year keeps   *)
(* its revenue, every later year is max(0, revenue of the adjusted year    *)
(* before * (1 + revenueGrowth / 100))                                     *)
RECURSIVE ScenarioRevenue(_, _, _)
ScenarioRevenue(base_forecast, scenario_values, i) ==
    IF i = 1 THEN base_forecast[1].revenue
    ELSE Max(0, Quot(ScenarioRevenue(base_forecast, scenario_values, i - 1)
                        * (100 + Get(scenario_values, "revenueGrowth", 0)), 100))

(* print(f"  Gross Margin: {(gross_profit / revenue) * 100:.1f}%") divides *)
(* by the adjusted revenue of the year                                     *)
ScenarioRaises(base_forecast, scenario_values) ==
    \E i \in 1..Len(base_forecast) :
        ScenarioRevenue(base_forecast, scenario_values, i) = 0

(* apply_scenario_to_forecast, the revenue of its adjusted forecast        *)
apply_scenario_to_forecast(base_forecast, scenario_values) ==
    IF Len(base_forecast) = 0 THEN [revenue |-> <<>>]
    ELSE IF ScenarioRaises(base_forecast, scenario_values)
    THEN Raised("ZeroDivisionError")
    ELSE [revenue |-> [i \in 1..Len(base_forecast) |->
                          ScenarioRevenue(base_forecast, scenario_values, i)]]

(* The inputs of the valuation calls.                                      *)

MaxCashFlows == 3

MaxWaccs == 6

MaxGrowths == 11

(* the default guess of calculate_irr: 0.1                                 *)
DefaultGuess == RateScale \div 10

(* max_iter: a short run and the default                                   *)
MaxIterChoices == {3, 50}

(* tol: 0.05 and 0.5                                                       *)
Tolerances == {5, 50}

CashFlowAmounts == {Amount(0 - 100), 0, Amount(60)}

CashFlowLists ==
    UNION {[1..n -> CashFlowAmounts] : n \in 0..MaxCashFlows}
    \cup {<<Amount(100), Amount(100), Amount(100)>>,
          <<Amount(0 - 100), Amount(50), Amount(60)>>,
          <<Amount(0 - 100), Amount(60), Amount(60)>>,
          <<Amount(0 - 100), Amount(10), Amount(10)>>,
          <<Amount(100), Amount(0 - 50)>>,
          <<Amount(10), Amount(10)>>,
          <<Amount(50), Amount(0 - 100), Amount(55)>>}

TerminalValueMethods == {"perpetuity", "exit-multiple", "liquidation", "none", "unknown"}

(* discount rates of 0.05 and 0.10 against growth rates from 0.02 to 0.06, *)
(* 0.0495 and 0.05 among them                                              *)
TerminalValueArguments ==
    [method : TerminalValueMethods,
     last_fcf : {Amount(100), Amount(0 - 40)},
     discount_rate : {500, 1000},
     terminal_growth : {200, 495, 500, 600},
     tv_metric_value : {Amount(50)},
     tv_multiple : {0, Amount(8)},
     tv_custom_value : {Amount(77)}]

(* the flows of the sweeps, and the calls made besides them: one terminal  *)
(* value with, without and with no word of a terminal year                 *)
SweepFlows == <<Amount(1), Amount(2)>>

DirectCalls ==
    {<<SweepFlows, 1000, Number(terminal_value_func(Amount(2), 200, 1000)), None>>,
     <<SweepFlows, 1000, Number(terminal_value_func(Amount(2), 200, 1000)), Number(1)>>,
     <<SweepFlows, 1000, Number(terminal_value_func(Amount(2), 200, 1000))>>}

(* a grid of MaxWaccs discount rates from 0.05 in steps of 0.01 by         *)
(* MaxGrowths growth rates from 0 in steps of 0.005, swept for two lists   *)
(* of flows, and a grid swept for no flows                                 *)
Grids ==
    {[free_cash_flows |-> SweepFlows,
      wacc_range |-> [i \in 1..MaxWaccs |-> 400 + 100 * i],
      terminal_growth_range |-> [j \in 1..MaxGrowths |-> 50 * (j - 1)]],
     [free_cash_flows |-> <<Amount(3), Amount(4)>>,
      wacc_range |-> [i \in 1..MaxWaccs |-> 400 + 100 * i],
      terminal_growth_range |-> [j \in 1..MaxGrowths |-> 50 * (j - 1)]],
     [free_cash_flows |-> <<>>,
      wacc_range |-> <<1000, 1100>>,
      terminal_growth_range |-> <<200, 300>>]}

(* the figures of a base year, zero denominators among them, and discount  *)
(* and growth rates in percent, equal ones and a discount rate below the   *)
(* growth rate among them                                                  *)
Figures ==
    [total_revenue : {0, Amount(1000)},
     total_expenses : {Amount(400)},
     net_income_values : {<<>>, <<Amount(0 - 100), Amount(200)>>},
     ebitda : {Amount(300)},
     total_assets : {0, Amount(700)},
     total_liabilities : {0, Amount(200)},
     total_equity : {0, Amount(500)},
     current_assets : {0, Amount(700)},
     current_liabilities : {0, Amount(100)},
     revenue_values : {<<0, Amount(1000)>>, <<Amount(1000), Amount(1200)>>},
     wacc : {3, 5, 10},
     terminal_growth : {2, 5}]

BaseForecasts ==
    UNION {[1..n -> {[revenue |-> 0], [revenue |-> Amount(100)]}] : n \in 0..2}

ScenarioValues == {<<>>, [revenueGrowth |-> 0 - 100], [revenueGrowth |-> 10]}

(* the requests whose revenue is projected on its own: retention rates     *)
(* that leave the demand below and above the capacity of the team, a team  *)
(* of none and a team never utilized, with and without seasonality         *)
RetentionRates == {50, 85}

UtilizationRates == {0, 75}

SeasonalityFactors == {0, 20}

RevenueRequests ==
    {[Payload(yib, fy, yib, services, "none", "none",
              [amount |-> 0, frequency |-> "annual"])
        EXCEPT !.serviceBusinessModel.clientRetentionRate = retention,
               !.serviceBusinessModel.utilizationRate = utilization,
               !.serviceBusinessModel.seasonalityFactor = seasonality,
               !.serviceBusinessModel.teamSize = team_size] :
        yib \in 1..MaxYears, fy \in 1..MaxForecast,
        services \in {"steady", "turnaround", "no_clients"},
        retention \in RetentionRates, utilization \in UtilizationRates,
        seasonality \in SeasonalityFactors, team_size \in TeamSizes}

----------------------------------------------------------------------------
(* The service holds no state of its own.  A request's data, the calendar  *)
(* year datetime.now() reports, and what each generator last returned.     *)
(* ebt_series, tax_rate, tax_calculated, taxes and net_income_after_tax    *)
(* are the locals of the tax loop of _generate_income_statement, for the   *)
(* runs that exercise the loop on its own.  pc, called, validation_result,  *)
(* company_metrics and result are the position and the locals of one call  *)
(* of calculate_historical_statements, and the methods it has invoked.     *)

VARIABLES data, current_year, returned, read_year,
          income_statement, balance_sheet, cash_flow,
          ebt_series, tax_rate, tax_calculated, taxes, net_income_after_tax,
          pc, called, validation_result, company_metrics, result,
          operation, arguments, outcome, cache

statement_vars == <<data, current_year, returned, read_year,
                    income_statement, balance_sheet, cash_flow>>

tax_vars == <<ebt_series, tax_rate, tax_calculated, taxes, net_income_after_tax>>

request_vars == <<pc, called, validation_result, company_metrics, result>>

valuation_vars == <<operation, arguments, outcome, cache>>

vars == <<statement_vars, tax_vars, request_vars, valuation_vars>>

Generators == {"income_statement", "balance_sheet", "cash_flow"}

NoStatement == [years |-> <<>>, line_items |-> <<>>]

NoRequest ==
    /\ current_year = 0
    /\ returned = {}
    /\ read_year = [g \in Generators |-> 0]
    /\ income_statement = NoStatement
    /\ balance_sheet = NoStatement
    /\ cash_flow = NoStatement

NoTaxLoop ==
    /\ ebt_series = <<>>
    /\ tax_rate = 0
    /\ tax_calculated = FALSE
    /\ taxes = <<>>
    /\ net_income_after_tax = <<>>

NoValue == [absent |-> TRUE]

NoCall ==
    /\ pc = "idle"
    /\ called = <<>>
    /\ validation_result = NoValue
    /\ company_metrics = NoValue
    /\ result = NoValue

NoValuation ==
    /\ operation = "none"
    /\ arguments = NoValue
    /\ outcome = NoValue
    /\ cache = <<>>

Init ==
    /\ data \in Payloads
    /\ NoRequest
    /\ NoTaxLoop
    /\ NoCall
    /\ NoValuation

GenerateIncomeStatement ==
    /\ income_statement' = _generate_income_statement(data, current_year)
    /\ returned' = returned \cup {"income_statement"}
    /\ read_year' = [read_year EXCEPT !["income_statement"] = current_year]
    /\ UNCHANGED <<data, current_year, balance_sheet, cash_flow, tax_vars, request_vars,
                 valuation_vars>>

GenerateBalanceSheet ==
    /\ balance_sheet' = _generate_balance_sheet(data, current_year)
    /\ returned' = returned \cup {"balance_sheet"}
    /\ read_year' = [read_year EXCEPT !["balance_sheet"] = current_year]
    /\ UNCHANGED <<data, current_year, income_statement, cash_flow, tax_vars,
                   request_vars, valuation_vars>>

GenerateCashFlowStatement ==
    /\ cash_flow' = _generate_cash_flow_statement(data, current_year)
    /\ returned' = returned \cup {"cash_flow"}
    /\ read_year' = [read_year EXCEPT !["cash_flow"] = current_year]
    /\ UNCHANGED <<data, current_year, income_statement, balance_sheet, tax_vars,
                   request_vars, valuation_vars>>

(* datetime.now().year moves on between two requests                       *)
NewYear ==
    /\ current_year < MaxNewYears
    /\ current_year' = current_year + 1
    /\ UNCHANGED <<data, returned, read_year, income_statement, balance_sheet,
                   cash_flow, tax_vars, request_vars, valuation_vars>>

Generate ==
    \/ GenerateIncomeStatement
    \/ GenerateBalanceSheet
    \/ GenerateCashFlowStatement

Next == Generate

Spec == Init /\ [][Next]_vars

NextAcrossYears == Generate \/ NewYear

SpecAcrossYears == Init /\ [][NextAcrossYears]_vars

----------------------------------------------------------------------------
(* The tax loop on its own: any EBT series of up to MaxEbtYears years over *)
(* EbtValues, at any rate of TaxRates.                                     *)

MaxEbtYears == 3

EbtValues == {Amount(0 - 100), Amount(0 - 50), 0, Amount(50), Amount(200)}

TaxRates == {0, 25, 30}

EbtSeries == UNION {[1..n -> EbtValues] : n \in 0..MaxEbtYears}

InitTax ==
    /\ data = Payload(0, 0, 0, "steady", "none", "none",
                      [amount |-> 0, frequency |-> "annual"])
    /\ NoRequest
    /\ ebt_series \in EbtSeries
    /\ tax_rate \in TaxRates
    /\ tax_calculated = FALSE
    /\ taxes = <<>>
    /\ net_income_after_tax = <<>>
    /\ NoCall
    /\ NoValuation

CalculateTaxes ==
    /\ ~tax_calculated
    /\ tax_calculated' = TRUE
    /\ taxes' = Taxes(ebt_series, Pct(tax_rate))
    /\ net_income_after_tax' = net_income(Len(ebt_series), ebt_series, taxes')
    /\ UNCHANGED <<statement_vars, ebt_series, tax_rate, request_vars,
                 valuation_vars>>

NextTax == CalculateTaxes

SpecTax == InitTax /\ [][NextTax]_vars

----------------------------------------------------------------------------
(* One call of calculate_historical_statements, step by step               *)

InitCalculate ==
    /\ data \in Requests
    /\ NoRequest
    /\ NoTaxLoop
    /\ NoCall
    /\ NoValuation

(* validation_result = self.validate_historical_data(data)                 *)
Validate ==
    /\ pc = "idle"
    /\ called' = Append(called, "validate_historical_data")
    /\ IF ValidationRaises(data)
       THEN pc' = "raised" /\ UNCHANGED validation_result
       ELSE pc' = "validated" /\ validation_result' = validate_historical_data(data)
    /\ UNCHANGED <<statement_vars, tax_vars, company_metrics, result,
                 valuation_vars>>

(* if not validation_result.get('valid', False): return {...}              *)
Reject ==
    /\ pc = "validated"
    /\ ~validation_result.valid
    /\ pc' = "returned"
    /\ result' = [success |-> FALSE,
                  errors |-> validation_result.errors,
                  warnings |-> validation_result.warnings]
    /\ UNCHANGED <<statement_vars, tax_vars, called, validation_result,
                   company_metrics, valuation_vars>>

Process ==
    /\ pc = "validated"
    /\ validation_result.valid
    /\ pc' = "processed"
    /\ called' = Append(called, "process_historical_data")
    /\ data' = process_historical_data(data)
    /\ UNCHANGED <<current_year, returned, read_year, income_statement,
                   balance_sheet, cash_flow, tax_vars, validation_result,
                   company_metrics, result, valuation_vars>>

ApplyAssumptions ==
    /\ pc = "processed"
    /\ pc' = "assumed"
    /\ called' = Append(called, "apply_company_specific_assumptions")
    /\ data' = apply_company_specific_assumptions(data)
    /\ UNCHANGED <<current_year, returned, read_year, income_statement,
                   balance_sheet, cash_flow, tax_vars, validation_result,
                   company_metrics, result, valuation_vars>>

CalculateMetrics ==
    /\ pc = "assumed"
    /\ called' = Append(called, "calculate_company_specific_metrics")
    /\ IF MetricsRaise(data)
       THEN pc' = "raised" /\ UNCHANGED company_metrics
       ELSE /\ pc' = "measured"
            /\ company_metrics' = calculate_company_specific_metrics(data)
    /\ UNCHANGED <<statement_vars, tax_vars, validation_result, result,
                 valuation_vars>>

(* statements = self._generate_standard_statements(processed_data)         *)
GenerateStandardStatements ==
    /\ pc = "measured"
    /\ pc' = "generated"
    /\ called' = Append(called, "_generate_standard_statements")
    /\ income_statement' = _generate_income_statement(data, current_year)
    /\ balance_sheet' = _generate_balance_sheet(data, current_year)
    /\ cash_flow' = _generate_cash_flow_statement(data, current_year)
    /\ returned' = Generators
    /\ read_year' = [g \in Generators |-> current_year]
    /\ UNCHANGED <<data, current_year, tax_vars, validation_result,
                   company_metrics, result, valuation_vars>>

Return ==
    /\ pc = "generated"
    /\ pc' = "returned"
    /\ result' = [success |-> TRUE,
                  company_type |-> "service",
                  income_statement |-> income_statement,
                  balance_sheet |-> balance_sheet,
                  cash_flow |-> cash_flow,
                  company_metrics |-> company_metrics,
                  processed_data |-> data,
                  validation |-> validation_result]
    /\ UNCHANGED <<statement_vars, tax_vars, called, validation_result,
                   company_metrics, valuation_vars>>

NextCalculate ==
    \/ Validate
    \/ Reject
    \/ Process
    \/ ApplyAssumptions
    \/ CalculateMetrics
    \/ GenerateStandardStatements
    \/ Return

SpecCalculate == InitCalculate /\ [][NextCalculate]_vars

----------------------------------------------------------------------------
(* The valuation calls: each is one call of a function of                  *)
(* dcf_calculation.py or of the dashboard service, on arguments of the     *)
(* sets above.  The functions but calculate_dcf_value_cached keep nothing  *)
(* from one call to the next.                                              *)

InitValuation ==
    /\ data = Payload(0, 0, 0, "steady", "none", "none",
                      [amount |-> 0, frequency |-> "annual"])
    /\ NoRequest
    /\ NoTaxLoop
    /\ NoCall
    /\ NoValuation

CalculateIrr ==
    /\ operation = "none"
    /\ \E cash_flows \in CashFlowLists, max_iter \in MaxIterChoices, tol \in Tolerances :
         /\ arguments' = [cash_flows |-> cash_flows, guess |-> DefaultGuess,
                          max_iter |-> max_iter, tol |-> tol]
         /\ outcome' = calculate_irr(cash_flows, DefaultGuess, max_iter, tol)
    /\ operation' = "calculate_irr"
    /\ UNCHANGED <<statement_vars, tax_vars, request_vars, cache>>

CalculatePaybackPeriod ==
    /\ operation = "none"
    /\ \E cash_flows \in CashFlowLists :
         /\ arguments' = [cash_flows |-> cash_flows]
         /\ outcome' = [value |-> calculate_payback_period(cash_flows)]
    /\ operation' = "calculate_payback_period"
    /\ UNCHANGED <<statement_vars, tax_vars, request_vars, cache>>

CalculateTerminalValue ==
    /\ operation = "none"
    /\ \E a \in TerminalValueArguments :
         /\ arguments' = a
         /\ outcome' = [value |-> Number(calculate_terminal_value(
                            a.method, a.last_fcf, a.discount_rate, a.terminal_growth,
                            a.tv_metric_value, a.tv_multiple, a.tv_custom_value))]
    /\ operation' = "calculate_terminal_value"
    /\ UNCHANGED <<statement_vars, tax_vars, request_vars, cache>>

CalculateDashboardKpis ==
    /\ operation = "none"
    /\ \E f \in Figures :
         /\ arguments' = f
         /\ outcome' = [value |-> DashboardKpis(
                DashboardRatios(f.total_revenue,
                                IF Len(f.net_income_values) > 0
                                THEN f.net_income_values[1] ELSE 0,
                                f.ebitda, f.total_assets, f.total_liabilities,
                                f.total_equity, f.current_assets, f.current_liabilities),
                DashboardTerminalValue(f.net_income_values, f.wacc, f.terminal_growth))]
    /\ operation' = "_calculate_comprehensive_dashboard_kpis"
    /\ UNCHANGED <<statement_vars, tax_vars, request_vars, cache>>

CalculateBaseRatios ==
    /\ operation = "none"
    /\ \E f \in Figures :
         /\ arguments' = f
         /\ outcome' = [value |-> _calculate_base_ratios(
                f.total_revenue, f.total_expenses,
                IF Len(f.net_income_values) > 0 THEN f.net_income_values[1] ELSE 0,
                f.ebitda, f.total_assets, f.total_equity, f.current_assets,
                f.current_liabilities, f.total_liabilities, f.revenue_values)]
    /\ operation' = "_calculate_base_ratios"
    /\ UNCHANGED <<statement_vars, tax_vars, request_vars, cache>>

ApplyScenarioToForecast ==
    /\ operation = "none"
    /\ \E base_forecast \in BaseForecasts, scenario_values \in ScenarioValues :
         /\ arguments' = [base_forecast |-> base_forecast,
                          scenario_values |-> scenario_values]
         /\ outcome' = [value |-> apply_scenario_to_forecast(base_forecast, scenario_values)]
    /\ operation' = "apply_scenario_to_forecast"
    /\ UNCHANGED <<statement_vars, tax_vars, request_vars, cache>>

NextValuation ==
    \/ CalculateIrr
    \/ CalculatePaybackPeriod
    \/ CalculateTerminalValue
    \/ CalculateDashboardKpis
    \/ CalculateBaseRatios
    \/ ApplyScenarioToForecast

SpecValuation == InitValuation /\ [][NextValuation]_vars

(* The cached calls: calculate_dcf_value_cached called directly, and by    *)
(* calculate_sensitivity_matrix once for every cell of its grid.           *)

Answered(name, args, call) ==
    /\ operation' = name
    /\ arguments' = args
    /\ outcome' = [value |-> call.value]
    /\ cache' = call.cache

CalculateDcfValueCached ==
    /\ \E args \in DirectCalls :
         Answered("calculate_dcf_value_cached", args,
                  calculate_dcf_value_cached(cache, args))
    /\ UNCHANGED <<statement_vars, tax_vars, request_vars>>

CalculateSensitivityMatrix ==
    /\ \E grid \in Grids :
         Answered("calculate_sensitivity_matrix", grid,
                  calculate_sensitivity_matrix(cache, grid.free_cash_flows,
                                               grid.wacc_range,
                                               grid.terminal_growth_range))
    /\ UNCHANGED <<statement_vars, tax_vars, request_vars>>

NextCache ==
    \/ CalculateDcfValueCached
    \/ CalculateSensitivityMatrix

SpecCache == InitValuation /\ [][NextCache]_vars

(* _calculate_revenue_breakdown called on its own, as the three generators *)
(* call it: the total revenue of every year, or the exception of the loop  *)
CalculateRevenueBreakdown ==
    /\ operation = "none"
    /\ \E request \in RevenueRequests :
         /\ arguments' = request
         /\ outcome' = [value |-> IF RevenueRaises(request)
                                  THEN Raised("UnboundLocalError")
                                  ELSE [total_revenue |-> total_revenue(request)]]
    /\ operation' = "_calculate_revenue_breakdown"
    /\ UNCHANGED <<statement_vars, tax_vars, request_vars, cache>>

NextRevenue == CalculateRevenueBreakdown

SpecRevenue == InitValuation /\ [][NextRevenue]_vars

----------------------------------------------------------------------------
(* Reading a returned statement                                            *)

HasLabel(statement, label) ==
    \E k \in 1..Len(statement.line_items) : statement.line_items[k].label = label

Values(statement, label) ==
    LET hits == {k \in 1..Len(statement.line_items) :
                    statement.line_items[k].label = label}
    IN statement.line_items[CHOOSE k \in hits : \A j \in hits : k <= j].values

(* the statement is an exception fallback: only those label years "FY ..." *)
Degraded(statement) ==
    \E k \in 1..Len(statement.years) : statement.years[k][1] = "FY"

Produced(g, statement) == g \in returned /\ ~Degraded(statement)

(* validate_historical_data answers valid: True                            *)
ValidHistoricalData(request) ==
    LET historical_data == request.historicalServices
    IN /\ Len(historical_data) > 0
       /\ \A y \in 1..Len(historical_data) :
            /\ historical_data[y].wellformed
            /\ \A k \in 1..Len(historical_data[y].services) :
                 /\ historical_data[y].services[k].historicalRevenue >= 0
                 /\ historical_data[y].services[k].cost >= 0

----------------------------------------------------------------------------
(* C1.  For any valid input, equipment, investments and loans included,    *)
(* every year of the balance sheet the generator returns has               *)
(* |TOTAL ASSETS - (TOTAL LIABILITIES + TOTAL EQUITY)| < 0.01.             *)
BalanceSheetBalances ==
    (Produced("balance_sheet", balance_sheet) /\ ValidHistoricalData(data)) =>
        \A i \in 1..Len(balance_sheet.years) :
            Abs(Values(balance_sheet, "TOTAL ASSETS")[i]
                - (Values(balance_sheet, "TOTAL LIABILITIES")[i]
                   + Values(balance_sheet, "TOTAL EQUITY")[i])) < Tolerance

(* a valid request with equipment, investments and loans has its balance   *)
(* sheet                                                                   *)
FinancedBalanceSheetProduced ==
    /\ Produced("balance_sheet", balance_sheet)
    /\ ValidHistoricalData(data)
    /\ Len(balance_sheet.years) > 0
    /\ \E i \in 1..Len(balance_sheet.years) :
         /\ Values(balance_sheet, "    Net Equipment")[i] > 0
         /\ Values(balance_sheet, "    Long-Term Loans")[i] > 0

----------------------------------------------------------------------------
(* C2.  When neither the balance sheet generator nor the cash flow         *)
(* generator falls back, the cash flow statement's Ending Cash equals the  *)
(* balance sheet's Cash and Cash Equivalents in every year, exactly.       *)
EndingCashIsBalanceSheetCash ==
    (Produced("balance_sheet", balance_sheet) /\ Produced("cash_flow", cash_flow)) =>
        Values(cash_flow, "    Ending Cash")
            = Values(balance_sheet, "    Cash and Cash Equivalents")

BothCashSeriesProduced ==
    /\ Produced("balance_sheet", balance_sheet)
    /\ Produced("cash_flow", cash_flow)
    /\ Len(cash_flow.years) > 2
    /\ Values(cash_flow, "    Capital Expenditures")[1] < 0
    /\ Values(cash_flow, "    Ending Cash")[2] # Values(cash_flow, "    Ending Cash")[1]

----------------------------------------------------------------------------
(* the net income series a statement of the income statement generator     *)
(* carries, under the label of its body or of its fallback                 *)
DirectNetIncome(statement) ==
    IF HasLabel(statement, "NET INCOME") THEN Values(statement, "NET INCOME")
    ELSE Values(statement, "Net Income")

(* the net income series the balance sheet generator feeds into retained   *)
(* earnings for the request at hand                                        *)
BalanceSheetNetIncome ==
    BalanceLocals(data, read_year["balance_sheet"]).net_income_values

(* revenue less operating expenses, taxed at the flat rate when positive   *)
SimplifiedNetIncome ==
    SimpleNetIncome(total_years(data), total_revenue(data),
                    total_operating_expenses(data), Pct(data.taxRate))

SimplifiedNetIncomeUsed ==
    /\ "income_statement" \in returned
    /\ Degraded(income_statement)
    /\ Produced("balance_sheet", balance_sheet)
    /\ Produced("cash_flow", cash_flow)
    /\ Len(cash_flow.years) > 1

----------------------------------------------------------------------------
(* C6.  In every year of an income statement that is not a fallback:       *)
(* GROSS PROFIT = TOTAL REVENUE - TOTAL COGS; EBITDA = GROSS PROFIT -      *)
(* TOTAL OPERATING EXPENSES + Other Operating Income - Other Operating     *)
(* Expenses; EBIT = EBITDA - Depreciation; EBT = EBIT + Investment Income  *)
(* - Interest Expense; NET INCOME = EBT - Tax Provision.                   *)
DerivedLineIdentities ==
    Produced("income_statement", income_statement) =>
        LET L(label) == Values(income_statement, label)
        IN \A i \in 1..Len(income_statement.years) :
            /\ L("GROSS PROFIT")[i] = L("TOTAL REVENUE")[i] - L("TOTAL COGS")[i]
            /\ L("EBITDA")[i] = L("GROSS PROFIT")[i]
                                - L("TOTAL OPERATING EXPENSES")[i]
                                + L("    Other Operating Income")[i]
                                - L("    Other Operating Expenses")[i]
            /\ L("EBIT")[i] = L("EBITDA")[i]
                              - L("    Depreciation & Amortization (Operating)")[i]
            /\ L("EARNINGS BEFORE TAXES (EBT)")[i]
                 = L("EBIT")[i] + L("    Investment Income")[i]
                   - L("    Interest Expense")[i]
            /\ L("NET INCOME")[i]
                 = L("EARNINGS BEFORE TAXES (EBT)")[i]
                   - L("    Tax Provision (with Loss Carryforward)")[i]

(* an income statement in which every term of the identities is at work    *)
EveryTermAtWork ==
    /\ Produced("income_statement", income_statement)
    /\ Len(income_statement.years) > 2
    /\ \E i \in 1..Len(income_statement.years) :
         /\ Values(income_statement, "TOTAL COGS")[i] > 0
         /\ Values(income_statement, "    Other Operating Income")[i] > 0
         /\ Values(income_statement, "    Other Operating Expenses")[i] > 0
         /\ Values(income_statement, "    Depreciation & Amortization (Operating)")[i] > 0
         /\ Values(income_statement, "    Investment Income")[i] > 0
         /\ Values(income_statement, "    Interest Expense")[i] > 0
         /\ Values(income_statement, "    Tax Provision (with Loss Carryforward)")[i] > 0

----------------------------------------------------------------------------
----------------------------------------------------------------------------
(* C8.  In every cash flow statement that is not a fallback, Beginning     *)
(* Cash of the first year is 0, Beginning Cash of every later year is the  *)
(* Ending Cash of the year before, and in every year Ending Cash less      *)
(* Beginning Cash is NET CHANGE IN CASH.                                   *)
CashRollForward ==
    Produced("cash_flow", cash_flow) =>
        LET Beginning == Values(cash_flow, "    Beginning Cash")
            Ending == Values(cash_flow, "    Ending Cash")
            Change == Values(cash_flow, "NET CHANGE IN CASH")
        IN \A i \in 1..Len(cash_flow.years) :
             /\ Beginning[i] = (IF i = 1 THEN 0 ELSE Ending[i - 1])
             /\ Ending[i] - Beginning[i] = Change[i]

(* cash rolled over several years, the first ending above zero             *)
CashRolled ==
    /\ Produced("cash_flow", cash_flow)
    /\ Len(cash_flow.years) > 2
    /\ Values(cash_flow, "    Ending Cash")[1] > 0
    /\ Values(cash_flow, "NET CHANGE IN CASH")[2] # 0

----------------------------------------------------------------------------
(* the losses still to be carried forward when year i begins, by the rule: *)
(* none before the first year; a year with EBT < 0 adds |EBT|; a year with *)
(* EBT >= 0 uses up min(losses, EBT)                                       *)
RECURSIVE LossesCarriedInto(_, _)
LossesCarriedInto(series, i) ==
    IF i = 1 THEN 0
    ELSE LET before == LossesCarriedInto(series, i - 1)
             earlier == series[i - 1]
         IN IF earlier < 0 THEN before + Abs(earlier)
            ELSE before - Min(before, earlier)

(* C5.  For every EBT series and tax rate the tax loop gives a year with   *)
(* EBT < 0 tax 0, and a year with EBT >= 0 the tax (EBT - offset) *        *)
(* tax_rate with offset = min(accumulated losses, EBT), the accumulated    *)
(* losses starting at 0, growing by |EBT| in a loss year and shrinking by  *)
(* the offset in a profit year; net income is EBT less that tax.  EBT      *)
(* [-100, -50, 200] at 25% gives taxes [0, 0, 12.5] and net income         *)
(* [-100, -50, 187.5].                                                     *)
LossCarryforwardRule ==
    tax_calculated =>
        /\ Len(taxes) = Len(ebt_series)
        /\ Len(net_income_after_tax) = Len(ebt_series)
        /\ \A i \in 1..Len(ebt_series) :
             LET offset == Min(LossesCarriedInto(ebt_series, i), ebt_series[i])
             IN /\ taxes[i] = IF ebt_series[i] < 0 THEN 0
                              ELSE Mul(ebt_series[i] - offset, Pct(tax_rate))
                /\ net_income_after_tax[i] = ebt_series[i] - taxes[i]
        /\ (ebt_series = <<0 - 10000, 0 - 5000, 20000>> /\ tax_rate = 25) =>
             /\ taxes = <<0, 0, 1250>>
             /\ net_income_after_tax = <<0 - 10000, 0 - 5000, 18750>>

(* the loop has run on two loss years followed by a profit that exceeds    *)
(* the losses                                                              *)
LossesOffsetAProfit ==
    /\ tax_calculated
    /\ ebt_series = <<Amount(0 - 100), Amount(0 - 50), Amount(200)>>
    /\ tax_rate = 25

----------------------------------------------------------------------------
(* the request with every historical list cut to yearsInBusiness records   *)
WithoutLaterRecords(request) ==
    LET yib == request.yearsInBusiness
    IN [request EXCEPT !.historicalServices = Prefix(@, yib),
                       !.historicalExpenses = Prefix(@, yib),
                       !.historicalEquipment = Prefix(@, yib),
                       !.historicalLoans = Prefix(@, yib),
                       !.historicalOther = Prefix(@, yib),
                       !.historicalInvestments = Prefix(@, yib)]

ExactLength(statement, n) ==
    /\ Len(statement.years) = n
    /\ \A k \in 1..Len(statement.line_items) :
         Len(statement.line_items[k].values) = n

(* the years of history the request says it has but holds no record of     *)
MissingYears(records) == (Len(records) + 1)..data.yearsInBusiness

(* C9.  Every series of a statement that is not a fallback has exactly     *)
(* yearsInBusiness + forecastYears values, and the statement that many     *)
(* year labels, whatever the lengths of the historical lists: records      *)
(* beyond yearsInBusiness are ignored, and a historical year without a     *)
(* record counts as zero.                                                  *)
SeriesLengthNormalised ==
    LET n == data.yearsInBusiness + data.forecastYears
    IN /\ Produced("income_statement", income_statement) =>
            /\ ExactLength(income_statement, n)
            /\ \A f \in DOMAIN income_statement.summary :
                 Len(income_statement.summary[f]) = n
            /\ income_statement
                 = _generate_income_statement(WithoutLaterRecords(data),
                                              read_year["income_statement"])
            /\ \A y \in MissingYears(data.historicalServices) :
                 /\ Values(income_statement, "TOTAL REVENUE")[y] = 0
                 /\ Values(income_statement, "TOTAL COGS")[y] = 0
            /\ \A y \in MissingYears(data.historicalExpenses) :
                 Values(income_statement, "TOTAL OPERATING EXPENSES")[y] = 0
       /\ Produced("balance_sheet", balance_sheet) =>
            /\ ExactLength(balance_sheet, n)
            /\ balance_sheet
                 = _generate_balance_sheet(WithoutLaterRecords(data),
                                           read_year["balance_sheet"])
            /\ \A y \in MissingYears(data.historicalEquipment) :
                 Values(balance_sheet, "    Property, Plant & Equipment (Gross)")[y] = 0
            /\ \A y \in MissingYears(data.historicalLoans) :
                 Values(balance_sheet, "    Long-Term Loans")[y] = 0
       /\ Produced("cash_flow", cash_flow) =>
            /\ ExactLength(cash_flow, n)
            /\ cash_flow
                 = _generate_cash_flow_statement(WithoutLaterRecords(data),
                                                 read_year["cash_flow"])
            /\ \A y \in MissingYears(data.historicalInvestments) :
                 Values(cash_flow, "    Investment Purchases")[y] = 0

(* all three statements produced from lists longer than yearsInBusiness    *)
LaterRecordsIgnored ==
    /\ Produced("income_statement", income_statement)
    /\ Produced("balance_sheet", balance_sheet)
    /\ Produced("cash_flow", cash_flow)
    /\ data.yearsInBusiness > 0
    /\ data.forecastYears > 0
    /\ Len(data.historicalServices) > data.yearsInBusiness
    /\ Len(data.historicalEquipment) > data.yearsInBusiness
    /\ data.historicalEquipment[Len(data.historicalEquipment)].equipment # <<>>

(* all three statements produced from lists shorter than yearsInBusiness   *)
MissingYearsPadded ==
    /\ Produced("income_statement", income_statement)
    /\ Produced("balance_sheet", balance_sheet)
    /\ Produced("cash_flow", cash_flow)
    /\ Len(data.historicalServices) > 0
    /\ Len(data.historicalServices) < data.yearsInBusiness
    /\ Values(income_statement, "TOTAL REVENUE")[1] > 0

----------------------------------------------------------------------------
LabelsMovedWithCalendar(before, after, years_passed) ==
    /\ Len(after) = Len(before)
    /\ \A k \in 1..Len(before) :
         /\ after[k][1] = before[k][1]
         /\ after[k][2] = before[k][2] + years_passed

----------------------------------------------------------------------------
(* a historical list of the request is empty or holds a malformed record   *)
EmptyOrMalformed(records) ==
    Len(records) = 0 \/ \E y \in 1..Len(records) : ~records[y].wellformed

SomeListEmptyOrMalformed ==
    \/ EmptyOrMalformed(data.historicalServices)
    \/ EmptyOrMalformed(data.historicalExpenses)
    \/ EmptyOrMalformed(data.historicalEquipment)
    \/ EmptyOrMalformed(data.historicalLoans)
    \/ EmptyOrMalformed(data.historicalOther)
    \/ EmptyOrMalformed(data.historicalInvestments)

(* a malformed record among the years the generators iterate over          *)
MalformedInUse(records) ==
    \E y \in 1..Len(records) : y <= data.yearsInBusiness /\ ~records[y].wellformed

FiveZeroYears(statement) ==
    /\ Len(statement.years) = 5
    /\ \A k \in 1..Len(statement.line_items) :
         statement.line_items[k].values = <<0, 0, 0, 0, 0>>

Labels(statement) ==
    [k \in 1..Len(statement.line_items) |-> statement.line_items[k].label]

MinimalIncomeStatement ==
    /\ FiveZeroYears(income_statement)
    /\ Labels(income_statement) = <<"Revenue", "Cost of Goods Sold", "Gross Profit",
                                    "Operating Expenses", "Net Income">>

MinimalBalanceSheet ==
    /\ FiveZeroYears(balance_sheet)
    /\ Labels(balance_sheet) = <<"Assets", "Liabilities", "Equity">>

MinimalCashFlow ==
    /\ FiveZeroYears(cash_flow)
    /\ Labels(cash_flow) = <<"Operating Activities", "Investing Activities",
                             "Financing Activities", "Net Change in Cash">>

(* the request without its historicalOther list                            *)
WithoutOther(request) == [request EXCEPT !.historicalOther = <<>>]

(* C10 as stated.  Fed a malformed or empty historical list, a generator   *)
(* returns a statement with exactly 5 year labels and only its minimal     *)
(* fallback line items, each with 5 zero values.                           *)
EmptyOrMalformedListGivesFallback ==
    SomeListEmptyOrMalformed =>
        /\ "income_statement" \in returned => MinimalIncomeStatement
        /\ "balance_sheet" \in returned => MinimalBalanceSheet
        /\ "cash_flow" \in returned => FiveZeroYears(cash_flow)

(* C10.  No exception escapes a generator.  A malformed record among the   *)
(* first yearsInBusiness records of a list the generator reads makes it    *)
(* return its fallback: exactly 5 year labels and only its minimal line    *)
(* items (income: Revenue, Cost of Goods Sold, Gross Profit, Operating     *)
(* Expenses, Net Income; balance sheet: Assets, Liabilities, Equity; cash  *)
(* flow: Operating Activities, Investing Activities, Financing Activities, *)
(* Net Change in Cash), each with 5 zero values; every fallback has that   *)
(* shape.  Empty historical lists do not: with at least one year to show,  *)
(* the generator returns its regular statement of yearsInBusiness +        *)
(* forecastYears years; and whether the balance sheet or the cash flow     *)
(* generator falls back does not depend on historicalOther, a list neither *)
(* reads, malformed or not.                                                *)
FallbackOnMalformedRecordInUse ==
    LET n == data.yearsInBusiness + data.forecastYears
        all_empty == /\ Len(data.historicalServices) = 0
                     /\ Len(data.historicalExpenses) = 0
                     /\ Len(data.historicalEquipment) = 0
                     /\ Len(data.historicalLoans) = 0
                     /\ Len(data.historicalOther) = 0
                     /\ Len(data.historicalInvestments) = 0
        read_by_all == \/ MalformedInUse(data.historicalServices)
                       \/ MalformedInUse(data.historicalExpenses)
                       \/ MalformedInUse(data.historicalEquipment)
                       \/ MalformedInUse(data.historicalLoans)
                       \/ MalformedInUse(data.historicalInvestments)
    IN /\ "income_statement" \in returned =>
            /\ (read_by_all \/ MalformedInUse(data.historicalOther)) =>
                 Degraded(income_statement)
            /\ Degraded(income_statement) => MinimalIncomeStatement
            /\ all_empty =>
                 ~Degraded(income_statement) /\ ExactLength(income_statement, n)
       /\ "balance_sheet" \in returned =>
            /\ read_by_all => Degraded(balance_sheet)
            /\ Degraded(balance_sheet) => MinimalBalanceSheet
            /\ all_empty => ~Degraded(balance_sheet) /\ ExactLength(balance_sheet, n)
            /\ Degraded(balance_sheet)
                 = Degraded(_generate_balance_sheet(WithoutOther(data),
                                                    read_year["balance_sheet"]))
       /\ "cash_flow" \in returned =>
            /\ read_by_all => Degraded(cash_flow)
            /\ Degraded(cash_flow) => MinimalCashFlow
            /\ (all_empty /\ n > 0) =>
                 ~Degraded(cash_flow) /\ ExactLength(cash_flow, n)
            /\ Degraded(cash_flow)
                 = Degraded(_generate_cash_flow_statement(WithoutOther(data),
                                                          read_year["cash_flow"]))

(* every generator has returned for a request whose services list holds a  *)
(* malformed record among its first yearsInBusiness                        *)
FallbacksReturned ==
    /\ returned = Generators
    /\ MalformedInUse(data.historicalServices)
    /\ Degraded(income_statement)
    /\ Degraded(balance_sheet)
    /\ Degraded(cash_flow)

(* the balance sheet and the cash flow statement produced although         *)
(* historicalOther holds a malformed record among its first                *)
(* yearsInBusiness                                                         *)
MalformedOtherNotRead ==
    /\ returned = Generators
    /\ MalformedInUse(data.historicalOther)
    /\ Degraded(income_statement)
    /\ ~Degraded(balance_sheet)
    /\ ~Degraded(cash_flow)

(* regular statements returned from empty historical lists                 *)
RegularFromEmptyLists ==
    /\ returned = Generators
    /\ Len(data.historicalServices) = 0
    /\ data.yearsInBusiness > 0
    /\ data.forecastYears > 0
    /\ ~Degraded(income_statement)
    /\ ~Degraded(balance_sheet)
    /\ ~Degraded(cash_flow)

----------------------------------------------------------------------------
(* Claims about one call of calculate_historical_statements                *)

(* every year record of the request is a mapping and every count and       *)
(* amount in it a number: the request coerces                              *)
NumericFieldsCoerce(request) ==
    \A y \in 1..Len(request.historicalServices) :
        request.historicalServices[y].wellformed

(* C11.  For every payload whose numeric fields coerce, a team of size 0,  *)
(* zero clients, zero revenue and missing optional keys included,          *)
(* calculate_historical_statements returns a result map: no exception      *)
(* escapes the call.                                                       *)
CalculateNeverRaises ==
    NumericFieldsCoerce(data) => pc # "raised"

(* the metrics step left the call by an exception for a team of size 0     *)
(* that has served clients                                                 *)
MetricsRaisedForEmptyTeam ==
    /\ pc = "raised"
    /\ NumericFieldsCoerce(data)
    /\ data.serviceBusinessModel.teamSize = 0
    /\ TotalHistoricalClients(data) > 0
    /\ called[Len(called)] = "calculate_company_specific_metrics"

(* the three statements of a returned result                               *)
ResultStatements ==
    {result.income_statement, result.balance_sheet, result.cash_flow}

(* C12.  Whenever the call returns success = true and one of its           *)
(* statements is an exception fallback, the result says so: in             *)
(* validation.errors, of the result or of a statement, or in a note field  *)
(* of the result or of a statement.                                        *)
DegradationIsFlagged ==
    (/\ pc = "returned"
     /\ result.success
     /\ \E statement \in ResultStatements : Degraded(statement)) =>
        \/ Len(result.validation.errors) > 0
        \/ "note" \in DOMAIN result
        \/ \E statement \in ResultStatements :
             \/ "note" \in DOMAIN statement
             \/ /\ "validation" \in DOMAIN statement
                /\ Len(statement.validation.errors) > 0

(* a successful result whose income statement alone is a fallback, with no *)
(* validation error and no note                                            *)
SilentlyDegradedResult ==
    /\ pc = "returned"
    /\ result.success
    /\ Degraded(result.income_statement)
    /\ ~Degraded(result.balance_sheet)
    /\ ~Degraded(result.cash_flow)
    /\ Len(result.validation.errors) = 0

(* the request is invalid: it has no year of services, or a year record    *)
(* without a services list, or a service with a negative revenue or cost   *)
InvalidRequest(request) ==
    LET historical_data == request.historicalServices
    IN \/ Len(historical_data) = 0
       \/ \E y \in 1..Len(historical_data) :
            \/ "services" \notin DOMAIN historical_data[y]
            \/ \E k \in 1..Len(Get(historical_data[y], "services", <<>>)) :
                 \/ historical_data[y].services[k].historicalRevenue < 0
                 \/ historical_data[y].services[k].cost < 0

(* C13.  Validation is the first step of every call.  For an invalid       *)
(* request the call returns {success: false, errors, warnings} with the    *)
(* validation's errors and warnings, and no processing, no metrics         *)
(* calculation and no statement generator has been invoked; a request that *)
(* is not invalid is never rejected, warnings or not.                      *)
ValidationBeforeCalculation ==
    /\ called # <<>> => called[1] = "validate_historical_data"
    /\ \A k \in 2..Len(called) : called[k] # "validate_historical_data"
    /\ pc \in {"validated", "processed", "assumed", "measured", "generated", "returned"} =>
         validation_result.valid = ~InvalidRequest(data)
    /\ (Len(called) > 1 \/ returned # {} \/ company_metrics # NoValue) =>
         ~InvalidRequest(data)
    /\ pc = "returned" =>
         IF InvalidRequest(data)
         THEN /\ result = [success |-> FALSE,
                           errors |-> validation_result.errors,
                           warnings |-> validation_result.warnings]
              /\ Len(result.errors) > 0
              /\ called = <<"validate_historical_data">>
              /\ returned = {}
              /\ company_metrics = NoValue
         ELSE /\ result.success
              /\ result.validation = validation_result

(* an invalid request rejected after validation alone                      *)
RejectedAfterValidation ==
    /\ pc = "returned"
    /\ InvalidRequest(data)
    /\ ~result.success
    /\ called = <<"validate_historical_data">>

(* a request with a growth-rate warning and no error, carried through      *)
WarningDidNotBlock ==
    /\ pc = "returned"
    /\ result.success
    /\ Len(result.validation.warnings) > 0
    /\ Len(result.validation.errors) = 0

----------------------------------------------------------------------------
(* The valuation functions                                                 *)

SameSign(cash_flows) ==
    \/ \A k \in 1..Len(cash_flows) : cash_flows[k] >= 0
    \/ \A k \in 1..Len(cash_flows) : cash_flows[k] <= 0

IrrExhausted ==
    /\ operation = "calculate_irr"
    /\ outcome.exit = "exhausted"
    /\ outcome.steps = arguments.max_iter

IrrZeroDerivative == operation = "calculate_irr" /\ outcome.exit = "zero_derivative"

IrrOutOfRange == operation = "calculate_irr" /\ outcome.exit = "out_of_range"

(* the cumulative cash flow goes from negative to non-negative in the      *)
(* period with index i, counted from 0                                     *)
RecoversIn(cash_flows, i) ==
    /\ SumSeq(Prefix(cash_flows, i)) < 0
    /\ SumSeq(Prefix(cash_flows, i + 1)) >= 0

(* C15: calculate_payback_period interpolates linearly within the period   *)
(* in which the cumulative cash flow first goes from negative to           *)
(* non-negative; [-100, 60, 60], which has 40 left to recover after the    *)
(* period with index 1 and recovers it part-way through the next, gives    *)
(* 1 + 40/60, a value between 1 and 2.                                     *)
PaybackInterpolatesFromFirstIndex ==
    (/\ operation = "calculate_payback_period"
     /\ arguments.cash_flows = <<Amount(0 - 100), Amount(60), Amount(60)>>)
        => /\ outcome.value = Number(RateScale + Quot(40 * RateScale, 60))
           /\ outcome.value.number > RateScale
           /\ outcome.value.number < 2 * RateScale

(* what the code returns for it: i - prev_cumulative / cf with i = 2       *)
PaybackCountedOnePeriodLate ==
    /\ operation = "calculate_payback_period"
    /\ arguments.cash_flows = <<Amount(0 - 100), Amount(60), Amount(60)>>
    /\ RecoversIn(arguments.cash_flows, 2)
    /\ outcome.value = Number(2 * RateScale + Quot(40 * RateScale, 60))

(* C16: for every non-empty list whose cumulative sum never goes from      *)
(* negative to non-negative calculate_payback_period returns 999.0, and    *)
(* for every non-empty list it returns a number, never None.               *)
PaybackSentinelOrNumber ==
    (operation = "calculate_payback_period" /\ Len(arguments.cash_flows) > 0)
        => /\ outcome.value # None
           /\ (\A i \in 0..(Len(arguments.cash_flows) - 1) :
                    ~RecoversIn(arguments.cash_flows, i))
                 => outcome.value = Number(999 * RateScale)

PaybackSentinelReturned ==
    /\ operation = "calculate_payback_period"
    /\ arguments.cash_flows = <<Amount(0 - 100), Amount(10), Amount(10)>>
    /\ outcome.value = Number(999 * RateScale)

(* a list that starts positive and ends with an outflow: the code falls    *)
(* through to its last line, return None                                   *)
PaybackIsNone ==
    /\ operation = "calculate_payback_period"
    /\ arguments.cash_flows = <<Amount(100), Amount(0 - 50)>>
    /\ outcome.value = None

(* a list that never is negative: 0.0, not 999.0                           *)
PaybackIsZero ==
    /\ operation = "calculate_payback_period"
    /\ arguments.cash_flows = <<Amount(10), Amount(10)>>
    /\ outcome.value = Number(0)

(* the formulas of the four methods                                        *)
TerminalValueByMethod ==
    operation = "calculate_terminal_value" =>
        /\ (arguments.method = "perpetuity"
               /\ arguments.discount_rate - arguments.terminal_growth > PerpetuityMargin)
              => outcome.value =
                    Number(Quot(arguments.last_fcf * (RateScale + arguments.terminal_growth),
                                arguments.discount_rate - arguments.terminal_growth))
        /\ (arguments.method = "perpetuity"
               /\ arguments.discount_rate - arguments.terminal_growth <= PerpetuityMargin)
              => outcome.value = Number(0)
        /\ arguments.method = "exit-multiple"
              => outcome.value = Number(Mul(arguments.tv_metric_value, arguments.tv_multiple))
        /\ arguments.method = "liquidation"
              => outcome.value = Number(arguments.tv_custom_value)
        /\ arguments.method \notin {"perpetuity", "exit-multiple", "liquidation"}
              => outcome.value = Number(0)

PerpetuityExample ==
    /\ operation = "calculate_terminal_value"
    /\ arguments.method = "perpetuity"
    /\ arguments.last_fcf = Amount(100)
    /\ arguments.discount_rate = RateScale \div 10
    /\ arguments.terminal_growth = 2 * (RateScale \div 100)

(* C17 as stated: perpetuity gives last_fcf*(1+g)/(r-g) when r-g > 0.001   *)
(* and 0 otherwise, exit-multiple metric*multiple, liquidation the custom  *)
(* value, none and unknown methods 0; ('perpetuity', 100, 0.10, 0.02)      *)
(* gives 127.5.                                                            *)
TerminalValueAsStated ==
    /\ TerminalValueByMethod
    /\ PerpetuityExample => outcome.value = Number(Amount(127) + Scale \div 2)

(* C17: perpetuity gives last_fcf*(1+g)/(r-g) when r-g > 0.001 and 0       *)
(* otherwise, exit-multiple metric*multiple, liquidation the custom value, *)
(* none and unknown methods 0; ('perpetuity', 100, 0.10, 0.02) gives       *)
(* 100*1.02/0.08 = 1275.                                                   *)
TerminalValueContract ==
    /\ TerminalValueByMethod
    /\ PerpetuityExample => outcome.value = Number(Amount(1275))

PerpetuityExampleComputed ==
    /\ PerpetuityExample
    /\ outcome.value = Number(Amount(1275))

(* a difference of 0.0005, not above 0.001: no perpetuity is computed      *)
PerpetuityWithinMargin ==
    /\ operation = "calculate_terminal_value"
    /\ arguments.method = "perpetuity"
    /\ arguments.discount_rate - arguments.terminal_growth > 0
    /\ arguments.discount_rate - arguments.terminal_growth <= PerpetuityMargin
    /\ arguments.last_fcf # 0
    /\ outcome.value = Number(0)

----------------------------------------------------------------------------
(* The cache of calculate_dcf_value_cached                                 *)

(* the keys calculate_sensitivity_matrix looks up for a grid               *)
GridKeys(grid) ==
    IF Len(grid.free_cash_flows) = 0 THEN {}
    ELSE {<<grid.free_cash_flows, grid.wacc_range[w],
            Number(terminal_value_func(grid.free_cash_flows[Len(grid.free_cash_flows)],
                                       grid.terminal_growth_range[g],
                                       grid.wacc_range[w]))>> :
             w \in 1..Len(grid.wacc_range), g \in 1..Len(grid.terminal_growth_range)}

(* every entry holds the value of calculate_dcf_value for its own key, no  *)
(* key is held twice, and the last call was answered with the value of     *)
(* calculate_dcf_value for its own arguments                               *)
CacheAnswersAsUncached ==
    /\ Len(cache) <= maxsize
    /\ \A k \in 1..Len(cache) :
          /\ cache[k].value = DcfOfArgs(cache[k].key)
          /\ \A j \in 1..Len(cache) : cache[j].key = cache[k].key => j = k
    /\ operation = "calculate_dcf_value_cached"
          => /\ outcome.value = DcfOfArgs(arguments)
             /\ cache[Len(cache)].key = arguments
    /\ operation = "calculate_sensitivity_matrix"
          => /\ Len(outcome.value) =
                    (IF Len(arguments.free_cash_flows) = 0 THEN 0
                     ELSE Len(arguments.wacc_range))
             /\ \A w \in 1..Len(outcome.value) :
                   \A g \in 1..Len(arguments.terminal_growth_range) :
                      outcome.value[w].values[g].dcf =
                          calculate_dcf_value(
                              arguments.free_cash_flows, arguments.wacc_range[w],
                              Number(terminal_value_func(
                                  arguments.free_cash_flows[Len(arguments.free_cash_flows)],
                                  arguments.terminal_growth_range[g],
                                  arguments.wacc_range[w])),
                              None)

(* the entries of the cache whose keys a call did not look up, in order    *)
Untouched(entries, touched) ==
    LET Kept(entry) == entry.key \notin touched
    IN SelectSeq(entries, Kept)

(* the cache after a call: the entries the call did not look up, less the  *)
(* evicted least recently used ones, and after them those it looked up;    *)
(* nothing is evicted from a cache that does not end up full               *)
SurvivorsThenTouched(untouched, after, touched) ==
    \E evicted \in 0..Len(untouched) :
        /\ SubSeq(after, 1, Len(untouched) - evicted)
              = SubSeq(untouched, evicted + 1, Len(untouched))
        /\ \A k \in (Len(untouched) - evicted + 1)..Len(after) :
              after[k].key \in touched
        /\ evicted > 0 => Len(after) = maxsize
        /\ Len(after) < maxsize
              => \A key \in touched : \E k \in 1..Len(after) : after[k].key = key

LeastRecentlyUsedEvicted(before, after, touched) ==
    SurvivorsThenTouched(Untouched(before, touched), after, touched)

CacheStep ==
    /\ operation' = "calculate_dcf_value_cached"
          => LeastRecentlyUsedEvicted(cache, cache', {arguments'})
    /\ operation' = "calculate_sensitivity_matrix"
          => LeastRecentlyUsedEvicted(cache, cache', GridKeys(arguments'))

(* C18: after any sequence of calls calculate_dcf_value_cached returns     *)
(* what calculate_dcf_value returns for the same flows, rate, terminal     *)
(* value and terminal year; the cache never holds more than 128 entries,   *)
(* and when it is full the least recently used entry is the one evicted.   *)
CachedIsUncachedAndLru == []CacheAnswersAsUncached /\ [][CacheStep]_vars

(* a full cache that has lost the second cell of the first sweep to a      *)
(* later call and still holds the last cell of that sweep                  *)
LeastRecentlyUsedGone ==
    /\ Len(cache) = maxsize
    /\ operation = "calculate_dcf_value_cached"
    /\ Len(arguments) = 4
    /\ ~\E k \in 1..Len(cache) :
            cache[k].key = <<SweepFlows, 500, Number(terminal_value_func(Amount(2), 50, 500))>>
    /\ \E k \in 1..Len(cache) :
            cache[k].key = <<SweepFlows, 400 + 100 * MaxWaccs,
                             Number(terminal_value_func(Amount(2), 50 * (MaxGrowths - 1),
                                                        400 + 100 * MaxWaccs))>>

(* a call with a terminal year answered from a cache that holds the same   *)
(* flows, rate and terminal value without one                              *)
TerminalYearKeptApart ==
    /\ operation = "calculate_dcf_value_cached"
    /\ Len(arguments) = 4
    /\ arguments[4] = Number(1)
    /\ \E k \in 1..Len(cache) : cache[k].key = <<arguments[1], arguments[2], arguments[3], None>>
    /\ \E k \in 1..Len(cache) : cache[k].key = <<arguments[1], arguments[2], arguments[3]>>
    /\ outcome.value # DcfOfArgs(<<arguments[1], arguments[2], arguments[3]>>)

----------------------------------------------------------------------------
(* The shape of a line item                                                *)

WireKeys == {"label", "values", "is_header", "is_total", "is_sub_item", "is_spacer"}

Place(statement, label) ==
    CHOOSE k \in 1..Len(statement.line_items) :
        /\ statement.line_items[k].label = label
        /\ \A j \in 1..(k - 1) : statement.line_items[j].label # label

HasWireShape(statement) ==
    \A k \in 1..Len(statement.line_items) : DOMAIN statement.line_items[k] = WireKeys

(* C19: every line item of every statement the three generators return,   *)
(* fallbacks included, has exactly the keys label, values, is_header,      *)
(* is_total, is_sub_item and is_spacer, all four flags on each item and no *)
(* other key, and the line items come in the fixed display order.          *)
LineItemsHaveWireShape ==
    /\ "income_statement" \in returned
          => /\ HasWireShape(income_statement)
             /\ ~Degraded(income_statement)
                   => /\ Place(income_statement, "REVENUE") = 1
                      /\ Place(income_statement, "TOTAL REVENUE")
                            < Place(income_statement, "GROSS PROFIT")
                      /\ Place(income_statement, "GROSS PROFIT")
                            < Place(income_statement, "EBITDA")
                      /\ Place(income_statement, "EBITDA")
                            < Place(income_statement, "NET INCOME")
    /\ "balance_sheet" \in returned => HasWireShape(balance_sheet)
    /\ "cash_flow" \in returned => HasWireShape(cash_flow)

(* the items of a returned income statement carry one flag at most: a      *)
(* header only is_header, a total only is_total, a detail line category    *)
(* and no flag                                                             *)
OneFlagAtMost ==
    /\ "income_statement" \in returned
    /\ ~Degraded(income_statement)
    /\ DOMAIN income_statement.line_items[1] = {"label", "values", "is_header"}
    /\ DOMAIN income_statement.line_items[Place(income_statement, "NET INCOME")]
          = {"label", "values", "is_total"}
    /\ \E k \in 1..Len(income_statement.line_items) :
          DOMAIN income_statement.line_items[k] = {"label", "values", "category"}

(* the items of a fallback carry no flag at all                            *)
FallbackItemsWithoutFlags ==
    /\ "cash_flow" \in returned
    /\ Degraded(cash_flow)
    /\ \A k \in 1..Len(cash_flow.line_items) :
          DOMAIN cash_flow.line_items[k] = {"label", "values"}

----------------------------------------------------------------------------
(* Zero denominators                                                       *)

(* C20: no valuation or dashboard KPI computation raises a division by     *)
(* zero; a ratio whose denominator (revenue, equity, assets, liabilities)  *)
(* is 0 evaluates to 0, and a perpetuity terminal value with WACC <=       *)
(* terminal growth, WACC = terminal growth included, evaluates to 0.       *)
NoDivisionByZero ==
    /\ operation # "none" => outcome.value # Raised("ZeroDivisionError")
    /\ (operation = "_calculate_comprehensive_dashboard_kpis"
          /\ outcome.value # Raised("ZeroDivisionError"))
          => /\ arguments.total_revenue = 0
                   => /\ outcome.value.ratios.profit_margin = 0
                      /\ outcome.value.ratios.ebitda_margin = 0
             /\ arguments.total_equity = 0
                   => /\ outcome.value.ratios.roe = 0
                      /\ outcome.value.ratios.debt_to_equity = 0
             /\ arguments.total_assets = 0 => outcome.value.ratios.asset_turnover = 0
             /\ arguments.current_liabilities = 0 => outcome.value.ratios.current_ratio = 0
             /\ arguments.wacc <= arguments.terminal_growth
                   => outcome.value.terminal_value = 0
    /\ operation = "_calculate_base_ratios"
          => /\ arguments.total_revenue = 0
                   => /\ outcome.value.profit_margin = Number(0)
                      /\ outcome.value.ebitda_margin = Number(0)
             /\ arguments.total_equity = 0 => outcome.value.roe = Number(0)
             /\ arguments.total_assets = 0 => outcome.value.roa = Number(0)
             /\ arguments.current_liabilities = 0
                   => outcome.value.current_ratio = Number(0)
    /\ (operation = "calculate_terminal_value" /\ arguments.method = "perpetuity"
          /\ arguments.discount_rate <= arguments.terminal_growth)
          => outcome.value = Number(0)

(* the dashboard's terminal value for a discount rate equal to the growth  *)
(* rate: the quotient is taken and raises                                  *)
DashboardTerminalValueRaised ==
    /\ operation = "_calculate_comprehensive_dashboard_kpis"
    /\ arguments.wacc = arguments.terminal_growth
    /\ Len(arguments.net_income_values) > 0
    /\ outcome.value = Raised("ZeroDivisionError")

(* for a discount rate below the growth rate it is a negative number       *)
DashboardTerminalValueNegative ==
    /\ operation = "_calculate_comprehensive_dashboard_kpis"
    /\ arguments.wacc < arguments.terminal_growth
    /\ outcome.value # Raised("ZeroDivisionError")
    /\ outcome.value.terminal_value < 0

(* the ratios of _calculate_base_ratios over a zero denominator are None   *)
BaseRatioIsNone ==
    /\ operation = "_calculate_base_ratios"
    /\ arguments.total_revenue = 0
    /\ arguments.total_equity = 0
    /\ outcome.value.profit_margin = None
    /\ outcome.value.roe = None

(* a scenario over a year without revenue raises in its gross margin line  *)
ScenarioRaised ==
    /\ operation = "apply_scenario_to_forecast"
    /\ Len(arguments.base_forecast) > 0
    /\ arguments.base_forecast[1].revenue = 0
    /\ outcome.value = Raised("ZeroDivisionError")

(* the guarded ratios of the dashboard and the guarded perpetuity do give  *)
(* 0: the code holds the policy there                                      *)
GuardedDenominatorsGiveZero ==
    /\ (operation = "_calculate_comprehensive_dashboard_kpis"
          /\ outcome.value # Raised("ZeroDivisionError")
          /\ arguments.total_revenue = 0)
          => outcome.value.ratios.profit_margin = 0
    /\ (operation = "calculate_terminal_value" /\ arguments.method = "perpetuity"
          /\ arguments.discount_rate <= arguments.terminal_growth)
          => outcome.value = Number(0)

----------------------------------------------------------------------------
(* The result of a valid request                                           *)

(* every historical year has a non-empty services list with non-negative   *)
(* revenue and cost                                                        *)
ValidInput(request) ==
    /\ ~InvalidRequest(request)
    /\ NumericFieldsCoerce(request)
    /\ \A y \in 1..Len(request.historicalServices) :
          Len(request.historicalServices[y].services) > 0

(* C21: for a valid input calculate_historical_statements('service', data) *)
(* returns success = true and a result that contains a non-empty           *)
(* dashboard_kpis map.                                                     *)
ValidInputGivesDashboardKpis ==
    ValidInput(data) =>
        /\ pc \notin {"raised", "rejected"}
        /\ pc = "returned"
              => /\ result.success
                 /\ "dashboard_kpis" \in DOMAIN result
                 /\ DOMAIN result.dashboard_kpis # {}

(* a valid request answered with success, three regular statements and no  *)
(* dashboard_kpis among the keys of the result                             *)
ResultWithoutDashboardKpis ==
    /\ ValidInput(data)
    /\ pc = "returned"
    /\ result.success
    /\ ~Degraded(result.income_statement)
    /\ ~Degraded(result.balance_sheet)
    /\ ~Degraded(result.cash_flow)
    /\ DOMAIN result = {"success", "company_type", "income_statement", "balance_sheet",
                        "cash_flow", "company_metrics", "processed_data", "validation"}

----------------------------------------------------------------------------
(* The revenue projection of _calculate_revenue_breakdown                  *)

(* revenue and customers of the last historical year, as the forecast loop *)
(* starts from them                                                        *)
BaseRevenue(request) ==
    LastOrZero(HistoricalRevenue(request.historicalServices, request.yearsInBusiness))

BaseCustomers(request) ==
    LastOrZero(HistoricalCustomers(request.historicalServices, request.yearsInBusiness))

(* nothing but the forecast loop can make the income statement fall back   *)
OnlyTheForecastCanRaise(request) ==
    /\ \A y \in HistoricalYears(request.historicalServices, request.yearsInBusiness) :
          request.historicalServices[y].wellformed
    /\ ~OperatingExpensesRaise(request)
    /\ ~DepreciationRaises(request)
    /\ ~OtherRaises(request)
    /\ ~InvestmentsRaise(request)
    /\ ~InterestRaises(request)

(* C22: whenever a denominator is zero in the last historical year         *)
(* (customer count 0, revenue per customer 0 or team size 0) no exception  *)
(* is raised and every forecast year's revenue is simple compound growth   *)
(* at revenue_growth_rate; positive historical revenue with 0 historical   *)
(* clients yields a normal, non-degraded projection.                       *)
ZeroDenominatorFallsBackToGrowth ==
    (/\ "income_statement" \in returned
     /\ data.forecastYears > 0
     /\ OnlyTheForecastCanRaise(data)
     /\ \/ BaseCustomers(data) = 0
        \/ BaseRevenue(data) = 0
        \/ data.serviceBusinessModel.teamSize = 0)
        => /\ ~RevenueRaises(data)
           /\ ~Degraded(income_statement)
           /\ BaseCustomers(data) = 0
                 => \A i \in 1..data.forecastYears :
                       Values(income_statement, "TOTAL REVENUE")[data.yearsInBusiness + i]
                           = Mul(BaseRevenue(data),
                                 Pow(Scale + Pct(data.revenueGrowthRate), i))

(* positive revenue and no clients in the last historical year: the first  *)
(* pass of the loop reads retained_customers, which nothing has assigned,  *)
(* and the income statement is the fallback                                *)
NoClientsGivesFallback ==
    /\ "income_statement" \in returned
    /\ data.forecastYears > 0
    /\ OnlyTheForecastCanRaise(data)
    /\ BaseCustomers(data) = 0
    /\ BaseRevenue(data) > 0
    /\ RevenueForecast(data)[1].raised
    /\ Degraded(income_statement)

(* no revenue in the last historical year: the projection is the compound  *)
(* growth of 0                                                             *)
NoRevenueProjectsZero ==
    /\ "income_statement" \in returned
    /\ data.forecastYears > 0
    /\ data.yearsInBusiness > 0
    /\ OnlyTheForecastCanRaise(data)
    /\ BaseRevenue(data) = 0
    /\ ~Degraded(income_statement)
    /\ Values(income_statement, "TOTAL REVENUE")[data.yearsInBusiness + 1] = 0

(* the locals of the forecast loop before its pass for forecast year i     *)
Before(request, i) ==
    IF i = 1
    THEN [base_revenue |-> BaseRevenue(request), base_customers |-> BaseCustomers(request)]
    ELSE RevenueForecast(request)[i - 1]

(* projected team size x revenue per team member x utilization             *)
CapacityRevenue(request, i) ==
    LET m == request.serviceBusinessModel
    IN Mul(Mul(Mul(m.teamSize, Pow(Scale + Pct(m.teamGrowthRate), i)),
               Div(Before(request, i).base_revenue, m.teamSize)),
           Pct(m.utilizationRate))

(* revenue of retained and new customers at the revenue per customer of    *)
(* the year before, after seasonality                                      *)
DemandRevenue(request, i) ==
    LET m == request.serviceBusinessModel
        base == Before(request, i)
        per_customer == Div(base.base_revenue, base.base_customers)
        retained == Mul(base.base_customers, Pct(m.clientRetentionRate))
        new == Mul(base.base_customers, Pct(request.customerGrowthRate))
    IN Mul(Mul(Mul(retained, per_customer), Scale + Pct(m.expansionRevenuePercent))
              + Mul(new, per_customer),
           Scale + Mul(Pct(m.seasonalityFactor),
                       (Scale \div 2) - (i % 2) * (Scale \div 2)))

(* C23: in every forecast year, when team size and utilization are         *)
(* positive and the capacity revenue (projected team size x revenue per    *)
(* team member x utilization) is positive, the projected revenue is the    *)
(* minimum of the demand-driven revenue after seasonality and the capacity *)
(* revenue, and so never exceeds the capacity revenue; when the capacity   *)
(* revenue is not positive the demand-driven revenue is used unchanged.    *)
CapacityCeiling ==
    (/\ operation = "_calculate_revenue_breakdown"
     /\ outcome.value # Raised("UnboundLocalError")
     /\ BaseCustomers(arguments) > 0
     /\ BaseRevenue(arguments) > 0)
        => \A i \in 1..arguments.forecastYears :
              LET projected == outcome.value.total_revenue[arguments.yearsInBusiness + i]
                  m == arguments.serviceBusinessModel
              IN IF m.teamSize > 0 /\ m.utilizationRate > 0
                    /\ CapacityRevenue(arguments, i) > 0
                 THEN /\ projected = Min(DemandRevenue(arguments, i),
                                         CapacityRevenue(arguments, i))
                      /\ projected <= CapacityRevenue(arguments, i)
                 ELSE projected = DemandRevenue(arguments, i)

(* a year capped at the capacity of the team, below its demand             *)
CappedAtCapacity ==
    /\ operation = "_calculate_revenue_breakdown"
    /\ outcome.value # Raised("UnboundLocalError")
    /\ BaseCustomers(arguments) > 0
    /\ arguments.serviceBusinessModel.teamSize > 0
    /\ arguments.serviceBusinessModel.utilizationRate > 0
    /\ CapacityRevenue(arguments, 1) > 0
    /\ CapacityRevenue(arguments, 1) < DemandRevenue(arguments, 1)
    /\ outcome.value.total_revenue[arguments.yearsInBusiness + 1]
          = CapacityRevenue(arguments, 1)

(* a year of demand below the capacity of the team                         *)
DemandBelowCapacity ==
    /\ operation = "_calculate_revenue_breakdown"
    /\ outcome.value # Raised("UnboundLocalError")
    /\ BaseCustomers(arguments) > 0
    /\ arguments.serviceBusinessModel.teamSize > 0
    /\ arguments.serviceBusinessModel.utilizationRate > 0
    /\ CapacityRevenue(arguments, 1) > DemandRevenue(arguments, 1)
    /\ outcome.value.total_revenue[arguments.yearsInBusiness + 1]
          = DemandRevenue(arguments, 1)

(* a team of none: the demand of the year, above what a team of ten could  *)
(* have delivered, is projected unchanged                                  *)
DemandWithoutCeiling ==
    /\ operation = "_calculate_revenue_breakdown"
    /\ outcome.value # Raised("UnboundLocalError")
    /\ BaseCustomers(arguments) > 0
    /\ BaseRevenue(arguments) > 0
    /\ arguments.serviceBusinessModel.teamSize = 0
    /\ arguments.serviceBusinessModel.clientRetentionRate = 85
    /\ outcome.value.total_revenue[arguments.yearsInBusiness + 1]
          = DemandRevenue(arguments, 1)
    /\ outcome.value.total_revenue[arguments.yearsInBusiness + 1] > BaseRevenue(arguments)

----------------------------------------------------------------------------
(* The validation of the balance sheet                                     *)

(* the years of a returned balance sheet whose total assets differ from    *)
(* total liabilities plus total equity by more than the tolerance          *)
ImbalancedYears(statement) ==
    {i \in 1..Len(statement.years) :
        Abs(Values(statement, "TOTAL ASSETS")[i]
            - (Values(statement, "TOTAL LIABILITIES")[i]
               + Values(statement, "TOTAL EQUITY")[i])) > Tolerance}

(* C24: _generate_balance_sheet checks the balance identity of every year  *)
(* with tolerance 0.01 and reports it only through the validation field:   *)
(* validation.errors has one entry per year whose                          *)
(* |assets - (liabilities + equity)| exceeds 0.01, validation.balances is  *)
(* true exactly when there is no such year, and an imbalance neither       *)
(* raises nor makes the generator return its fallback statement.           *)
ImbalanceReportedInValidation ==
    "balance_sheet" \in returned =>
        /\ ~BalanceRaises(data) => ~Degraded(balance_sheet)
        /\ ~Degraded(balance_sheet)
              => /\ DOMAIN balance_sheet = {"years", "line_items", "validation"}
                 /\ Len(balance_sheet.validation.errors)
                       = Cardinality(ImbalancedYears(balance_sheet))
                 /\ \A k \in 1..Len(balance_sheet.validation.errors) :
                       \E i \in ImbalancedYears(balance_sheet) :
                          /\ balance_sheet.validation.errors[k].year
                                = balance_sheet.years[i]
                          /\ \A j \in 1..(k - 1) :
                                balance_sheet.validation.errors[j].year
                                    # balance_sheet.years[i]
                 /\ balance_sheet.validation.balances
                       <=> ImbalancedYears(balance_sheet) = {}

(* a regular balance sheet with imbalanced years, each one reported        *)
ImbalanceReported ==
    /\ "balance_sheet" \in returned
    /\ ~Degraded(balance_sheet)
    /\ Cardinality(ImbalancedYears(balance_sheet)) > 1
    /\ Len(balance_sheet.validation.errors) = Cardinality(ImbalancedYears(balance_sheet))
    /\ ~balance_sheet.validation.balances

(* a regular balance sheet that balances in every year                     *)
BalancedReported ==
    /\ "balance_sheet" \in returned
    /\ ~Degraded(balance_sheet)
    /\ Len(balance_sheet.years) > 1
    /\ ImbalancedYears(balance_sheet) = {}
    /\ balance_sheet.validation.balances

----------------------------------------------------------------------------
(* monte_carlo_npv_simulation.  The amounts of the simulation are in       *)
(* thousands, so that 100_000 is 100; a bin bound is a number or one of    *)
(* the two infinities.                                                     *)

NegativeInfinity == [infinity |-> 0 - 1]

PositiveInfinity == [infinity |-> 1]

(* bins = [-float('inf'), 0, 100_000, ..., 500_000, float('inf')]          *)
DefaultBins ==
    <<NegativeInfinity, Number(0), Number(100), Number(200), Number(300),
      Number(400), Number(500), PositiveInfinity>>

bin_labels == <<"<0", "0-100k", "100k-200k", "200k-300k", "300k-400k", "400k-500k", ">500k">>

(* bound <= npv                                                            *)
AtMost(bound, npv) ==
    IF "infinity" \in DOMAIN bound THEN bound.infinity < 0 ELSE bound.number <= npv

(* npv < bound                                                             *)
Under(npv, bound) ==
    IF "infinity" \in DOMAIN bound THEN bound.infinity > 0 ELSE npv < bound.number

(* a test that takes the upper bound into the bin and leaves the lower out *)
InBinOfUpperBound(bins, i, npv) ==
    /\ IF "infinity" \in DOMAIN bins[i + 1] THEN bins[i + 1].infinity < 0
       ELSE bins[i + 1].number < npv
    /\ IF "infinity" \in DOMAIN bins[i + 2] THEN bins[i + 2].infinity > 0
       ELSE npv <= bins[i + 2].number

(* if bins[i] <= npv < bins[i+1], the bins counted from 0                  *)
InBin(bins, i, npv) ==
    /\ AtMost(bins[i + 1], npv)
    /\ Under(npv, bins[i + 2])

(* for i in range(len(bins)-1): ... break: the first bin that takes the    *)
(* npv, from bin i on, and len(bins)-1 where none does                     *)
RECURSIVE FirstBin(_, _, _)
FirstBin(bins, i, npv) ==
    IF i >= Len(bins) - 1 THEN Len(bins) - 1
    ELSE IF InBin(bins, i, npv) THEN i
    ELSE FirstBin(bins, i + 1, npv)

(* the npv of one run, of the discount rate and terminal growth drawn      *)
RunNpv(free_cash_flows, dr, tg) ==
    calculate_npv(
        Append(free_cash_flows,
               calculate_terminal_value("perpetuity",
                   IF Len(free_cash_flows) > 0
                   THEN free_cash_flows[Len(free_cash_flows)] ELSE 0,
                   dr, tg, 0, 0, 0)),
        dr)

(* npv_results, of the pairs random.uniform gave to the runs               *)
npv_results(free_cash_flows, drawn) ==
    [r \in 1..Len(drawn) |-> RunNpv(free_cash_flows, drawn[r].dr, drawn[r].tg)]

(* counts[bin_labels[i]]                                                   *)
counts(bins, results, i) ==
    Cardinality({r \in 1..Len(results) : FirstBin(bins, 0, results[r]) = i})

monte_carlo_npv_simulation(free_cash_flows, drawn, bins) ==
    [k \in 1..Len(bin_labels) |->
        [bin |-> bin_labels[k],
         count |-> counts(IF bins = None THEN DefaultBins ELSE bins,
                          npv_results(free_cash_flows, drawn), k - 1)]]

(* the values random.uniform(a, b) is drawn from: the ends of the range    *)
(* and its middle                                                          *)
Uniform(range) == {range[1], (range[1] + range[2]) \div 2, range[2]}

MaxRuns == 2

(* cash flows of thousands whose npv falls below zero, on zero, on the     *)
(* bound of 100_000 and into the bins above; discount rates of 8 to 12     *)
(* per cent, and terminal growths below and above them                     *)
SimulatedFlows ==
    {<<>>, <<0>>, <<100>>, <<0 - 50, 2>>, <<20>>, <<200, 200>>}

DiscountRateRanges == {<<800, 1200>>}

TerminalGrowthRanges == {<<200, 1200>>}

MonteCarloNpvSimulation ==
    /\ operation = "none"
    /\ \E free_cash_flows \in SimulatedFlows,
          discount_rate_range \in DiscountRateRanges,
          terminal_growth_range \in TerminalGrowthRanges,
          runs \in 0..MaxRuns :
         \E drawn \in [1..runs -> [dr : Uniform(discount_rate_range),
                                   tg : Uniform(terminal_growth_range)]] :
            /\ arguments' = [free_cash_flows |-> free_cash_flows,
                             discount_rate_range |-> discount_rate_range,
                             terminal_growth_range |-> terminal_growth_range,
                             runs |-> runs, bins |-> None, drawn |-> drawn]
            /\ outcome' = [value |-> monte_carlo_npv_simulation(
                                        free_cash_flows, drawn, None)]
    /\ operation' = "monte_carlo_npv_simulation"
    /\ UNCHANGED <<statement_vars, tax_vars, request_vars, cache>>

NextSimulation == MonteCarloNpvSimulation

SpecSimulation == InitValuation /\ [][NextSimulation]_vars

(* C25: with the default bins monte_carlo_npv_simulation returns the 7     *)
(* buckets '<0', '0-100k', '100k-200k', '200k-300k', '300k-400k',          *)
(* '400k-500k', '>500k' in that order; the count of a bucket is the number *)
(* of runs whose npv is at least its lower bound and below its upper       *)
(* bound, every run is in exactly one bucket, and the counts sum to the    *)
(* number of runs.                                                         *)
BucketOf(npv) ==
    IF npv < 0 THEN 1 ELSE IF npv < 100 THEN 2 ELSE IF npv < 200 THEN 3
    ELSE IF npv < 300 THEN 4 ELSE IF npv < 400 THEN 5 ELSE IF npv < 500 THEN 6
    ELSE 7

SimulatedNpv(r) ==
    RunNpv(arguments.free_cash_flows, arguments.drawn[r].dr, arguments.drawn[r].tg)

ZeroInFirstPositiveBucket ==
    /\ operation = "monte_carlo_npv_simulation"
    /\ arguments.runs > 0
    /\ \A r \in 1..arguments.runs : SimulatedNpv(r) = 0
    /\ outcome.value[2].count = arguments.runs
    /\ outcome.value[1].count = 0

(* runs below zero                                                         *)
RunsBelowZero ==
    /\ operation = "monte_carlo_npv_simulation"
    /\ outcome.value[1].count > 0

----------------------------------------------------------------------------
(* calculate_tornado_data, and the dashboard's call of it.                 *)
(* variable_impacts is the list of the items of the dict, in the order of  *)
(* their insertion: a variable, its type and its low and high values.      *)

(* [fcf * impact[bound] for fcf in free_cash_flows]                        *)
Scaled(free_cash_flows, multiplier) ==
    [t \in 1..Len(free_cash_flows) |-> Quot(free_cash_flows[t] * multiplier, RateScale)]

(* the arguments of the cached call that flexes a variable to a value, for *)
(* the three types that flex                                               *)
FlexedArgs(free_cash_flows, base_discount_rate, base_terminal_growth, type, value) ==
    IF type = "fcf"
    THEN <<Scaled(free_cash_flows, value), base_discount_rate,
           Number(terminal_value_func(
               Scaled(free_cash_flows, value)[Len(free_cash_flows)],
               base_terminal_growth, base_discount_rate))>>
    ELSE IF type = "wacc"
    THEN <<free_cash_flows, value,
           Number(terminal_value_func(free_cash_flows[Len(free_cash_flows)],
                                      base_terminal_growth, value))>>
    ELSE <<free_cash_flows, base_discount_rate,
           Number(terminal_value_func(free_cash_flows[Len(free_cash_flows)],
                                      value, base_discount_rate))>>

(* for var, impact in variable_impacts.items(): ... tornado.append(...),   *)
(* from the variable after the Len(tornado) already flexed on, with the    *)
(* cache the calls leave                                                   *)
RECURSIVE TornadoFrom(_, _, _, _, _, _, _)
TornadoFrom(entries, free_cash_flows, base_discount_rate, base_terminal_growth, variable_impacts, base_dcf, tornado) ==
    IF Len(tornado) >= Len(variable_impacts)
    THEN [cache |-> entries, value |-> tornado]
    ELSE LET impact == variable_impacts[Len(tornado) + 1]
             flexed == impact.type \in {"fcf", "wacc", "growth"}
             dcf_low ==
                 IF flexed
                 THEN calculate_dcf_value_cached(entries,
                          FlexedArgs(free_cash_flows, base_discount_rate,
                                     base_terminal_growth, impact.type, impact.low))
                 ELSE [cache |-> entries, value |-> base_dcf]
             dcf_high ==
                 IF flexed
                 THEN calculate_dcf_value_cached(dcf_low.cache,
                          FlexedArgs(free_cash_flows, base_discount_rate,
                                     base_terminal_growth, impact.type, impact.high))
                 ELSE [cache |-> entries, value |-> base_dcf]
         IN  TornadoFrom(dcf_high.cache, free_cash_flows, base_discount_rate,
                         base_terminal_growth, variable_impacts, base_dcf,
                         Append(tornado,
                                [variable |-> impact.variable, low |-> dcf_low.value,
                                 high |-> dcf_high.value, base |-> base_dcf]))

(* the loop after the base case, whose cached call is base                 *)
TornadoAfterBase(base, free_cash_flows, base_discount_rate, base_terminal_growth, variable_impacts) ==
    TornadoFrom(base.cache, free_cash_flows, base_discount_rate,
                base_terminal_growth, variable_impacts, base.value, <<>>)

calculate_tornado_data(entries, free_cash_flows, base_discount_rate, base_terminal_growth, variable_impacts) ==
    IF Len(free_cash_flows) = 0 THEN [cache |-> entries, value |-> <<>>]
    ELSE TornadoAfterBase(
            calculate_dcf_value_cached(entries,
                <<free_cash_flows, base_discount_rate,
                  Number(terminal_value_func(free_cash_flows[Len(free_cash_flows)],
                                             base_terminal_growth,
                                             base_discount_rate))>>),
            free_cash_flows, base_discount_rate, base_terminal_growth,
            variable_impacts)

(* the ranges of the dashboard, around the user's discount rate and        *)
(* terminal growth                                                         *)
sensitivity_ranges(user_wacc, user_terminal_growth) ==
    <<[variable |-> "revenue_growth", type |-> "fcf",
       low |-> 0 - (15 * RateScale) \div 100, high |-> (25 * RateScale) \div 100],
      [variable |-> "operating_margin", type |-> "fcf",
       low |-> 0 - (10 * RateScale) \div 100, high |-> (15 * RateScale) \div 100],
      [variable |-> "wacc", type |-> "wacc",
       low |-> Max((5 * RateScale) \div 100, user_wacc - (4 * RateScale) \div 100),
       high |-> Min((20 * RateScale) \div 100, user_wacc + (4 * RateScale) \div 100)],
      [variable |-> "terminal_growth", type |-> "growth",
       low |-> Max((5 * RateScale) \div 1000, user_terminal_growth - (2 * RateScale) \div 100),
       high |-> Min((8 * RateScale) \div 100, user_terminal_growth + (2 * RateScale) \div 100)]>>

(* original_data.get('discount_rate', 0.12) if original_data else 0.12     *)
UserWacc(original_data) ==
    IF original_data # None /\ "discount_rate" \in DOMAIN original_data
    THEN original_data.discount_rate ELSE (12 * RateScale) \div 100

(* original_data.get('terminal_growth_rate', 0.03) if original_data else   *)
(* 0.03                                                                    *)
UserTerminalGrowth(original_data) ==
    IF original_data # None /\ "terminal_growth_rate" \in DOMAIN original_data
    THEN original_data.terminal_growth_rate ELSE (3 * RateScale) \div 100

(* the try block of _calculate_tornado_chart_data; fcf_values falls back   *)
(* to 80 per cent of the net income                                        *)
_calculate_tornado_chart_data(entries, net_income_value, fcf_values, original_data) ==
    calculate_tornado_data(entries,
        IF Len(fcf_values) = 0 THEN <<(net_income_value * 8) \div 10>> ELSE fcf_values,
        UserWacc(original_data), UserTerminalGrowth(original_data),
        sensitivity_ranges(UserWacc(original_data), UserTerminalGrowth(original_data)))

(* the variables a caller flexes: cash flows scaled to 90 and 110 per      *)
(* cent, discount rates of 8 and 12 per cent, terminal growths of 1 and 3  *)
(* per cent, and a variable of a type that is not flexed                   *)
Impacts ==
    {[variable |-> "fcf", type |-> "fcf",
      low |-> (9 * RateScale) \div 10, high |-> (11 * RateScale) \div 10],
     [variable |-> "wacc", type |-> "wacc",
      low |-> (8 * RateScale) \div 100, high |-> (12 * RateScale) \div 100],
     [variable |-> "growth", type |-> "growth",
      low |-> RateScale \div 100, high |-> (3 * RateScale) \div 100],
     [variable |-> "tax", type |-> "other", low |-> 0, high |-> 0]}

(* the dicts of some of them, in every order of insertion                  *)
VariableImpacts ==
    {s \in UNION {[1..n -> Impacts] : n \in 0..Cardinality(Impacts)} :
        \A j, k \in 1..Len(s) : s[j] = s[k] => j = k}

TornadoFlows == {<<>>, <<Amount(5)>>, <<Amount(10), Amount(12)>>}

BaseRates ==
    {[discount_rate |-> (10 * RateScale) \div 100,
      terminal_growth_rate |-> (2 * RateScale) \div 100],
     [discount_rate |-> (6 * RateScale) \div 100,
      terminal_growth_rate |-> (7 * RateScale) \div 100]}

CalculateTornadoData ==
    /\ operation = "none"
    /\ \E free_cash_flows \in TornadoFlows, base \in BaseRates,
          variable_impacts \in VariableImpacts :
         LET call == calculate_tornado_data(cache, free_cash_flows,
                        base.discount_rate, base.terminal_growth_rate,
                        variable_impacts)
         IN  /\ arguments' = [free_cash_flows |-> free_cash_flows,
                              base_discount_rate |-> base.discount_rate,
                              base_terminal_growth |-> base.terminal_growth_rate,
                              variable_impacts |-> variable_impacts]
             /\ outcome' = [value |-> call.value]
             /\ cache' = call.cache
    /\ operation' = "calculate_tornado_data"
    /\ UNCHANGED <<statement_vars, tax_vars, request_vars>>

CalculateTornadoChartData ==
    /\ operation = "none"
    /\ \E fcf_values \in TornadoFlows, net_income_value \in {0, Amount(10)},
          original_data \in {None} \cup BaseRates :
         LET call == _calculate_tornado_chart_data(cache, net_income_value, fcf_values,
                                                   original_data)
         IN  /\ arguments' = [net_income |-> net_income_value, fcf_values |-> fcf_values,
                              original_data |-> original_data]
             /\ outcome' = [value |-> call.value]
             /\ cache' = call.cache
    /\ operation' = "_calculate_tornado_chart_data"
    /\ UNCHANGED <<statement_vars, tax_vars, request_vars>>

----------------------------------------------------------------------------
(* calculate_scenario_kpis and calculate_sensitivity_analysis.             *)
(* scenario_values is a dict of one variable or of none; the ranges are    *)
(* the items of sensitivity_ranges in the order of their insertion.        *)

(* [year.get("free_cash_flow", 0) for year in base_forecast]               *)
FcfValues(base_forecast) ==
    [t \in 1..Len(base_forecast) |->
        IF "free_cash_flow" \in DOMAIN base_forecast[t]
        THEN base_forecast[t].free_cash_flow ELSE 0]

(* the defaults of calculate_irr: 50 passes, and a tolerance of 1e-6,      *)
(* which no figure of the model but zero is below                          *)
DefaultMaxIter == 50

DefaultTol == 1

(* for i, cf in enumerate(fcf_values): the year the cumulative cash flow   *)
(* reaches the initial investment, from index i on, and 0 if none          *)
RECURSIVE ScenarioPaybackFrom(_, _, _, _)
ScenarioPaybackFrom(fcf_values, i, cumulative_cf, initial_investment) ==
    IF i >= Len(fcf_values) THEN 0
    ELSE IF cumulative_cf + fcf_values[i + 1] >= initial_investment THEN i + 1
    ELSE ScenarioPaybackFrom(fcf_values, i + 1, cumulative_cf + fcf_values[i + 1],
                             initial_investment)

(* the KPIs of a list of free cash flows that is not empty                 *)
KpisOf(fcf_values, irr, base_discount_rate, base_terminal_growth) ==
    [npv |-> RunNpv(fcf_values, base_discount_rate, base_terminal_growth),
     irr |-> IF irr.value # None THEN irr.value.number ELSE 0,
     payback_period |->
        IF fcf_values[1] < 0
        THEN ScenarioPaybackFrom(fcf_values, 0, 0, Abs(fcf_values[1]))
        ELSE 0]

ScenarioKpisOf(fcf_values, base_discount_rate, base_terminal_growth) ==
    IF Len(fcf_values) = 0 THEN [npv |-> 0, irr |-> 0, payback_period |-> 0]
    ELSE KpisOf(fcf_values,
                calculate_irr(
                    Append(fcf_values,
                           calculate_terminal_value("perpetuity",
                               fcf_values[Len(fcf_values)], base_discount_rate,
                               base_terminal_growth, 0, 0, 0)),
                    DefaultGuess, DefaultMaxIter, DefaultTol),
                base_discount_rate, base_terminal_growth)

(* KPIs of the cash flows scaled by one plus the value of the scenario     *)
ScenarioKpisOfFlexedFlows(base_forecast, scenario_values, base_discount_rate, base_terminal_growth) ==
    ScenarioKpisOf(
        IF DOMAIN scenario_values = {} THEN FcfValues(base_forecast)
        ELSE Scaled(FcfValues(base_forecast),
                    RateScale + scenario_values[CHOOSE v \in DOMAIN scenario_values : TRUE]),
        base_discount_rate, base_terminal_growth)

calculate_scenario_kpis(base_forecast, scenario_values, base_discount_rate, base_terminal_growth) ==
    ScenarioKpisOf(FcfValues(base_forecast), base_discount_rate, base_terminal_growth)

(* optimized_ranges[variable]: 30 per cent of the range on either side of  *)
(* its middle                                                              *)
optimized_ranges(ranges) ==
    [k \in 1..Len(ranges) |->
        [variable |-> ranges[k].variable,
         low |-> Quot(ranges[k].low + ranges[k].high, 2)
                    - Quot((ranges[k].high - ranges[k].low) * 3, 10),
         high |-> Quot(ranges[k].low + ranges[k].high, 2)
                    + Quot((ranges[k].high - ranges[k].low) * 3, 10),
         type |-> ranges[k].type]]

(* ((kpis["npv"] - base_npv) / base_npv * 100) if base_npv != 0 else 0     *)
ImpactOn(base_npv, npv) ==
    IF base_npv # 0 THEN Quot((npv - base_npv) * Scale, base_npv) * 100 ELSE 0

(* the entry of a variable, of the KPIs of its low and high scenarios      *)
TornadoEntry(variable, low_kpis, high_kpis, base_npv) ==
    [variable |-> variable,
     low_impact |-> ImpactOn(base_npv, low_kpis.npv),
     high_impact |-> ImpactOn(base_npv, high_kpis.npv),
     low_npv |-> low_kpis.npv,
     high_npv |-> high_kpis.npv,
     base_npv |-> base_npv]

(* key=lambda x: abs(x["high_impact"] - x["low_impact"])                   *)
ImpactKey(x) == Abs(x.high_impact - x.low_impact)

(* tornado_data.sort(key=..., reverse=True): the sort keeps the entries of *)
(* equal keys in their order                                               *)
RECURSIVE SortedByImpact(_)
SortedByImpact(tornado_data) ==
    IF Len(tornado_data) = 0 THEN <<>>
    ELSE LET sorted == SortedByImpact(SubSeq(tornado_data, 1, Len(tornado_data) - 1))
             last == tornado_data[Len(tornado_data)]
             ahead == Cardinality({k \in 1..Len(sorted) :
                                     ImpactKey(sorted[k]) >= ImpactKey(last)})
         IN  SubSeq(sorted, 1, ahead) \o <<last>> \o SubSeq(sorted, ahead + 1, Len(sorted))

(* tornado_data, of the base npv                                           *)
TornadoData(base_forecast, ranges, base_discount_rate, base_terminal_growth, base_npv) ==
    SortedByImpact(
        [k \in 1..Len(ranges) |->
            TornadoEntry(ranges[k].variable,
                calculate_scenario_kpis(base_forecast,
                    ranges[k].variable :> optimized_ranges(ranges)[k].low,
                    base_discount_rate, base_terminal_growth),
                calculate_scenario_kpis(base_forecast,
                    ranges[k].variable :> optimized_ranges(ranges)[k].high,
                    base_discount_rate, base_terminal_growth),
                base_npv)])

(* wacc_scenarios: two per cent either side of the user's, within 5 and 20 *)
(* per cent                                                                *)
wacc_scenarios(user_wacc) ==
    <<Max((5 * RateScale) \div 100, user_wacc - (2 * RateScale) \div 100),
      user_wacc,
      Min((20 * RateScale) \div 100, user_wacc + (2 * RateScale) \div 100)>>

(* growth_scenarios: one per cent either side of the user's, within 0.5    *)
(* and 8 per cent                                                          *)
growth_scenarios(user_growth) ==
    <<Max((5 * RateScale) \div 1000, user_growth - RateScale \div 100),
      user_growth,
      Min((8 * RateScale) \div 100, user_growth + RateScale \div 100)>>

(* calculate_sensitivity_matrix with lambda last_fcf, g, wacc:             *)
(* calculate_terminal_value('perpetuity', last_fcf, wacc, g): the cells of *)
(* the matrix, row by row, from the one after the Len(dcfs) cells already  *)
(* computed on, with the cache the calls leave                             *)
RECURSIVE PerpetuityMatrixFrom(_, _, _, _, _)
RECURSIVE PerpetuityMatrixNext(_, _, _, _, _)
PerpetuityMatrixFrom(entries, free_cash_flows, wacc_range, terminal_growth_range, dcfs) ==
    IF Len(dcfs) >= Len(wacc_range) * Len(terminal_growth_range)
    THEN [cache |-> entries, dcfs |-> dcfs]
    ELSE PerpetuityMatrixNext(
            calculate_dcf_value_cached(entries,
                <<free_cash_flows,
                  wacc_range[(Len(dcfs) \div Len(terminal_growth_range)) + 1],
                  Number(calculate_terminal_value("perpetuity",
                      free_cash_flows[Len(free_cash_flows)],
                      wacc_range[(Len(dcfs) \div Len(terminal_growth_range)) + 1],
                      terminal_growth_range[(Len(dcfs) % Len(terminal_growth_range)) + 1],
                      0, 0, 0))>>),
            free_cash_flows, wacc_range, terminal_growth_range, dcfs)

PerpetuityMatrixNext(call, free_cash_flows, wacc_range, terminal_growth_range, dcfs) ==
    PerpetuityMatrixFrom(call.cache, free_cash_flows, wacc_range,
                         terminal_growth_range, Append(dcfs, call.value))

(* the results of an analysis, of the matrix swept                         *)
AnalysisResults(tornado_data, matrix) ==
    [cache |-> matrix.cache,
     value |-> [tornado_data |-> tornado_data, sensitivity_matrix |-> matrix.value]]

calculate_sensitivity_analysis(entries, base_forecast, ranges, base_discount_rate, base_terminal_growth) ==
    IF Len(base_forecast) = 0
    THEN [cache |-> entries,
          value |-> [tornado_data |-> <<>>, sensitivity_matrix |-> <<>>]]
    ELSE AnalysisResults(
            TornadoData(base_forecast, ranges, base_discount_rate,
                        base_terminal_growth,
                        calculate_scenario_kpis(base_forecast, <<>>, base_discount_rate,
                                                base_terminal_growth).npv),
            MatrixRows(PerpetuityMatrixFrom(entries, FcfValues(base_forecast),
                                            wacc_scenarios(base_discount_rate),
                                            growth_scenarios(base_terminal_growth),
                                            <<>>),
                       wacc_scenarios(base_discount_rate),
                       growth_scenarios(base_terminal_growth)))

(* forecasts of up to two years: an investment, a free cash flow, and a    *)
(* year without the figure                                                 *)
ForecastYears ==
    {[free_cash_flow |-> Amount(0 - 4)], [free_cash_flow |-> Amount(10)],
     [revenue |-> Amount(100)]}

ForecastsWithCashFlow == UNION {[1..n -> ForecastYears] : n \in 0..2}

(* the scenarios of one variable                                           *)
OneVariableScenarios ==
    {<<>>} \cup {v :> x : v \in {"fcf", "wacc"},
                        x \in {0 - RateScale \div 10, RateScale \div 10}}

CalculateScenarioKpis ==
    /\ operation = "none"
    /\ \E base_forecast \in ForecastsWithCashFlow,
          scenario_values \in OneVariableScenarios, base \in BaseRates :
         /\ arguments' = [base_forecast |-> base_forecast,
                          scenario_values |-> scenario_values,
                          base_discount_rate |-> base.discount_rate,
                          base_terminal_growth |-> base.terminal_growth_rate]
         /\ outcome' = [value |-> calculate_scenario_kpis(
                            base_forecast, scenario_values, base.discount_rate,
                            base.terminal_growth_rate)]
    /\ operation' = "calculate_scenario_kpis"
    /\ UNCHANGED <<statement_vars, tax_vars, request_vars, cache>>

CalculateSensitivityAnalysis ==
    /\ operation = "none"
    /\ \E base_forecast \in ForecastsWithCashFlow, base \in BaseRates,
          ranges \in VariableImpacts :
         LET call == calculate_sensitivity_analysis(cache, base_forecast, ranges,
                        base.discount_rate, base.terminal_growth_rate)
         IN  /\ arguments' = [base_forecast |-> base_forecast,
                              sensitivity_ranges |-> ranges,
                              base_discount_rate |-> base.discount_rate,
                              base_terminal_growth |-> base.terminal_growth_rate]
             /\ outcome' = [value |-> call.value]
             /\ cache' = call.cache
    /\ operation' = "calculate_sensitivity_analysis"
    /\ UNCHANGED <<statement_vars, tax_vars, request_vars>>

NextTornado ==
    \/ CalculateTornadoData
    \/ CalculateTornadoChartData
    \/ CalculateScenarioKpis
    \/ CalculateSensitivityAnalysis

SpecTornado == InitValuation /\ [][NextTornado]_vars

(* C26: the tornado entries the valuation layer returns are sorted by      *)
(* descending impact: of two consecutive entries of calculate_tornado_data *)
(* (and of the dashboard's call of it) the first has the larger or equal   *)
(* |high - low|, and of two consecutive entries of the tornado_data of     *)
(* calculate_sensitivity_analysis the first has the larger or equal        *)
(* |high_impact - low_impact|, whatever the order of the variables.        *)
TornadoSortedByImpact ==
    /\ operation \in {"calculate_tornado_data", "_calculate_tornado_chart_data"} =>
          \A k \in 1..(Len(outcome.value) - 1) :
             Abs(outcome.value[k].high - outcome.value[k].low)
                >= Abs(outcome.value[k + 1].high - outcome.value[k + 1].low)
    /\ operation = "calculate_sensitivity_analysis" =>
          \A k \in 1..(Len(outcome.value.tornado_data) - 1) :
             Abs(outcome.value.tornado_data[k].high_impact
                    - outcome.value.tornado_data[k].low_impact)
                >= Abs(outcome.value.tornado_data[k + 1].high_impact
                          - outcome.value.tornado_data[k + 1].low_impact)

(* what calculate_tornado_data does: the entries are those of the          *)
(* variables in the order they were supplied                               *)
TornadoInOrderOfVariables ==
    operation = "calculate_tornado_data" /\ Len(arguments.free_cash_flows) > 0 =>
        [k \in 1..Len(outcome.value) |-> outcome.value[k].variable]
           = [k \in 1..Len(arguments.variable_impacts) |->
                 arguments.variable_impacts[k].variable]

(* a tornado of calculate_tornado_data whose second entry has the larger   *)
(* impact                                                                  *)
TornadoAscending ==
    /\ operation = "calculate_tornado_data"
    /\ Len(outcome.value) >= 2
    /\ Abs(outcome.value[1].high - outcome.value[1].low)
          < Abs(outcome.value[2].high - outcome.value[2].low)

(* the tornado of the dashboard with the wacc, third, above the revenue    *)
(* growth, first                                                           *)
DashboardTornadoUnsorted ==
    /\ operation = "_calculate_tornado_chart_data"
    /\ Len(outcome.value) = 4
    /\ outcome.value[1].variable = "revenue_growth"
    /\ outcome.value[3].variable = "wacc"
    /\ Abs(outcome.value[1].high - outcome.value[1].low)
          < Abs(outcome.value[3].high - outcome.value[3].low)

(* C30: in calculate_sensitivity_analysis the scenario value of a flexed   *)
(* variable does not reach the npv: every tornado entry has low_npv =      *)
(* high_npv = base_npv, the npv of the forecast at the base rates, and     *)
(* low_impact = high_impact = 0, for every variable and every range; and   *)
(* calculate_scenario_kpis returns for any scenario_values the KPIs it     *)
(* returns for none.                                                       *)
ForecastNpv ==
    IF Len(arguments.base_forecast) = 0 THEN 0
    ELSE calculate_npv(
            Append(FcfValues(arguments.base_forecast),
                   calculate_terminal_value("perpetuity",
                       FcfValues(arguments.base_forecast)[Len(arguments.base_forecast)],
                       arguments.base_discount_rate, arguments.base_terminal_growth,
                       0, 0, 0)),
            arguments.base_discount_rate)

ScenarioGiven ==
    /\ operation = "calculate_scenario_kpis"
    /\ DOMAIN arguments.scenario_values # {}
    /\ outcome.value.npv # 0
    /\ outcome.value.payback_period > 0

(* C27: in every year of a cash flow statement that is not the fallback,   *)
(* the NET CHANGE IN CASH line equals Net Cash from Operations + Net Cash  *)
(* from Investing + Net Cash from Financing within 0.01.                   *)
SectionsSum(statement, i) ==
    Values(statement, "    Net Cash from Operations")[i]
        + Values(statement, "    Net Cash from Investing")[i]
        + Values(statement, "    Net Cash from Financing")[i]

NetChangeIsSumOfSections ==
    Produced("cash_flow", cash_flow) =>
        \A i \in 1..Len(cash_flow.years) :
            Abs(Values(cash_flow, "NET CHANGE IN CASH")[i] - SectionsSum(cash_flow, i))
                <= Tolerance

(* a regular cash flow statement with a year whose net change differs from *)
(* the sum of its three sections by more than 0.01                         *)
NetChangeApartFromSections ==
    /\ Produced("cash_flow", cash_flow)
    /\ \E i \in 1..Len(cash_flow.years) :
          Abs(Values(cash_flow, "NET CHANGE IN CASH")[i] - SectionsSum(cash_flow, i))
              > Tolerance

(* a regular cash flow statement whose net change is the sum of its three  *)
(* sections in every year, and not zero                                    *)
NetChangeTiesToSections ==
    /\ Produced("cash_flow", cash_flow)
    /\ Len(cash_flow.years) > 1
    /\ \A i \in 1..Len(cash_flow.years) :
          /\ Values(cash_flow, "NET CHANGE IN CASH")[i] = SectionsSum(cash_flow, i)
          /\ Values(cash_flow, "NET CHANGE IN CASH")[i] # 0

(* C28: in every year i of a balance sheet that is not the fallback,       *)
(* TOTAL ASSETS[i] - (TOTAL LIABILITIES[i] + TOTAL EQUITY[i]) equals       *)
(* Net Equipment[i] + Investments[i] - Short-Term Loans[i] - Long-Term     *)
(* Loans[i]; validation.balances is true exactly when that quantity is     *)
(* within 0.01 of zero in every year; and TOTAL LIABILITIES & EQUITY is    *)
(* TOTAL LIABILITIES + TOTAL EQUITY.                                       *)
Unfunded(statement, i) ==
    Values(statement, "    Net Equipment")[i]
        + Values(statement, "    Investments")[i]
        - Values(statement, "    Short-Term Loans (Due < 1 Year)")[i]
        - Values(statement, "    Long-Term Loans")[i]

NothingUnfundedBalances ==
    /\ Produced("balance_sheet", balance_sheet)
    /\ \A i \in 1..Len(balance_sheet.years) : Unfunded(balance_sheet, i) = 0
    /\ \E i \in 1..Len(balance_sheet.years) :
          Values(balance_sheet, "TOTAL LIABILITIES")[i] > 0
    /\ balance_sheet.validation.balances

(* C29: the loss-carryforward loop never over-relieves: the running        *)
(* accumulated_losses is never negative; every year has                    *)
(* 0 <= Tax[i] <= tax_rate * max(EBT[i], 0), and NetIncome[i] <= EBT[i]    *)
(* when EBT[i] >= 0; the tax of a profitable year is the rate on the       *)
(* profit less the offset of the year; and the total offset applied up to  *)
(* any year never exceeds the total of the losses of earlier years.        *)
LossesBefore(series, k) ==
    SumSeq([j \in 1..(k - 1) |-> IF series[j] < 0 THEN Abs(series[j]) ELSE 0])

OffsetsUpTo(series, k) == SumSeq([j \in 1..k |-> LossOffset(series, j)])

NeverOverRelieves ==
    tax_calculated =>
        /\ Len(taxes) = Len(ebt_series)
        /\ \A k \in 0..Len(ebt_series) : AccumulatedLosses(ebt_series, k) >= 0
        /\ \A i \in 1..Len(ebt_series) :
              /\ 0 <= taxes[i]
              /\ taxes[i] <= Mul(Max(ebt_series[i], 0), Pct(tax_rate))
              /\ ebt_series[i] >= 0 => net_income_after_tax[i] <= ebt_series[i]
              /\ ebt_series[i] >= 0
                    => taxes[i] = Mul(ebt_series[i] - LossOffset(ebt_series, i),
                                      Pct(tax_rate))
              /\ 0 <= LossOffset(ebt_series, i)
              /\ LossOffset(ebt_series, i) <= Max(ebt_series[i], 0)
              /\ OffsetsUpTo(ebt_series, i) <= LossesBefore(ebt_series, i)
              /\ OffsetsUpTo(ebt_series, i) + AccumulatedLosses(ebt_series, i)
                    = LossesBefore(ebt_series, i + 1)

(* losses of 100 relieved over two profitable years, the second taxed on   *)
(* what is left of its profit                                              *)
LossRelievedOverTwoYears ==
    /\ tax_calculated
    /\ tax_rate > 0
    /\ Len(ebt_series) = 3
    /\ ebt_series[1] < 0
    /\ LossOffset(ebt_series, 2) = ebt_series[2]
    /\ LossOffset(ebt_series, 2) > 0
    /\ LossOffset(ebt_series, 3) > 0
    /\ LossOffset(ebt_series, 3) < ebt_series[3]
    /\ taxes[2] = 0
    /\ taxes[3] > 0
    /\ AccumulatedLosses(ebt_series, 3) = 0

(* a loss larger than the profit after it: the profit is not taxed and     *)
(* losses are left                                                         *)
LossesLeftOver ==
    /\ tax_calculated
    /\ tax_rate > 0
    /\ Len(ebt_series) >= 2
    /\ ebt_series[Len(ebt_series)] > 0
    /\ taxes[Len(ebt_series)] = 0
    /\ AccumulatedLosses(ebt_series, Len(ebt_series)) > 0

============================================================================
